---- MODULE Spec2Model ----
(***************************************************************************)
(* Verification model of packer-plugin-googlecompute.                      *)
(*                                                                         *)
(*  Spec        the builder: Builder.Run, its pipeline of steps, the step  *)
(*              runner's run-then-unwind discipline and the result.        *)
(*  SpecOp      one long-running driver operation (lib/common driver_gce): *)
(*              the request, the background worker running waitForState,   *)
(*              the completion channels and the caller waiting on them.    *)
(*  LiveSpecOp  SpecOp with the scheduler's fairness (every goroutine that *)
(*              can run eventually runs, every armed timer fires).         *)
(*  SpecImport  the googlecompute-import post-processor: PostProcess with  *)
(*              the driver's CreateImage operation running under it.       *)
(*  SpecDeprecation  StepCreateImage.Run after the image was stored: the   *)
(*              deprecation timestamps and the status request.             *)
(*  SpecStartup, LiveSpecStartup  StepWaitStartupScript.Run and its retry  *)
(*              loop, without and with the scheduler's fairness.           *)
(*  SpecMetadata  StepCreateInstance.Run: the instance metadata, the wait  *)
(*              before SSH keys are added and AddToInstanceMetadata.       *)
(*  SpecDisks   the block devices of a build: creation, attachment, the    *)
(*              teardown of the instance and the deletion of the disks.    *)
(*  SpecInstanceCleanup  StepCreateInstance.Cleanup: the deletion of the   *)
(*              instance and of its boot disk, each waited for.            *)
(*  SpecPrepare  Config.Prepare: BlockDevice.Prepare and the accumulation  *)
(*              of the violated validation rules.                          *)
(*  SpecOsLogin  StepImportOSLoginSSHKey: the identity lookups, the import *)
(*              and the removal of the key.                                *)
(*  SpecPassword, LiveSpecPassword  driverGCE.createWindowsPassword,       *)
(*              without and with the scheduler's fairness.                 *)
(*  SpecAuth    Authentication.Prepare: the configured authentication      *)
(*              mechanisms and the credentials they yield.                 *)
(*  SpecScript  the startup script: the wrapper's default, the instance    *)
(*              metadata and the place of the wait step in the pipeline.   *)
(*  SpecExport  the googlecompute-export post-processor: PostProcess and   *)
(*              the exporter pipeline it runs.                             *)
(***************************************************************************)
EXTENDS Naturals, Sequences, FiniteSets, TLC

\* Saturation point of the refresh-call counter (the retry loop itself is unbounded).
MaxPolls == 3

\* Largest c.WindowsPasswordTimeout, in sleeps of 2 seconds.
MaxPwTimeout == 4

\* Largest number of extra disks (disk_attachment blocks needing creation) in a build.
MaxDisks == 2

VARIABLES
    site,         \* the call site of the driver operation being waited on
    opPc,         \* position of the driver function / its background worker
    errCh,        \* values buffered in the error channel (capacity 1)
    errChClosed,  \* close(errCh) was executed
    resCh,        \* values buffered in the result channel (imageCh / diskChan)
    resChClosed,  \* close(resCh) was executed
    errLog,       \* every value sent on errCh so far, in order
    refreshCalls, \* number of refresh() calls made by waitForState (saturating)
    lastRefresh,  \* <<state, err>> returned by the last refresh() call
    forwarded,    \* waitForState took the "error together with target" branch
    pendingErr,   \* the error value the worker is about to send
    callerPc,     \* position of the caller
    callerErr,    \* the err value the caller ended with
    callerRes     \* the resource the caller received from the result channel

opVars == <<site, opPc, errCh, errChClosed, resCh, resChClosed, errLog,
            refreshCalls, lastRefresh, forwarded, pendingErr,
            callerPc, callerErr, callerRes>>

VARIABLES
    cfg,                \* the prepared Config of the build
    ctxCancelled,       \* the build context was cancelled
    runnerPc,           \* position of Builder.Run / the step runner
    idx,                \* index of the next step to run
    remaining,          \* number of deferred cleanups still to run
    log,                \* events so far: step runs, returns, cleanups, provider requests
    lastAction,         \* the StepAction the last step returned
    stError,            \* state bag key "error": "none", "error" (an error value), "string"
    stImage,            \* state bag key "image": "none", "nil" (nil *Image), "image"
    instanceName,       \* state bag key "instance_name": "unset", "name", "empty"
    stFingerprint,      \* state bag key "ssh_key_public_sha256" is set
    imageAlreadyExists, \* config.imageAlreadyExists
    retArtifact,        \* artifact returned by Builder.Run
    retErr              \* error returned by Builder.Run

VARIABLES
    skipClean,    \* config.SkipClean of the import post-processor
    ppPc,         \* position of PostProcess
    uploaded,     \* UploadToBucket stored the object
    deleteIssued, \* DeleteFromBucket was called for the object
    ppArtifact,   \* PostProcess's local retArtifact
    ppErr,        \* PostProcess's local retErr
    ppRet         \* <<artifact, error>> PostProcess returned

ppVars == <<skipClean, ppPc, uploaded, deleteIssued, ppArtifact, ppErr, ppRet>>

VARIABLES
    dpCfg,      \* config.DeprecateAt, ObsoleteAt, DeleteAt of the build
    dpNow,      \* time.Now() in getDeprecationStatus
    dpPc,       \* position of StepCreateImage.Run after the image was stored
    dpStatus,   \* the DeprecationStatus handed to SetImageDeprecationStatus
    dpStError,  \* state bag key "error" as this part of the step leaves it
    dpUpdated   \* SetImageDeprecationStatus was called

dpVars == <<dpCfg, dpNow, dpPc, dpStatus, dpStError, dpUpdated>>

VARIABLES
    wsWrap,       \* config.WrapStartupScriptFile: "unset", "true", "false"
    wsPc,         \* position of StepWaitStartupScript.Run
    wsCancelled,  \* the context handed to StepWaitStartupScript.Run is cancelled
    wsLog,        \* the latest results of the metadata reads, oldest first
    wsStError     \* state bag key "error" as the step leaves it

wsVars == <<wsWrap, wsPc, wsCancelled, wsLog, wsStError>>

VARIABLES
    mdCfg,        \* the options that decide the instance metadata
    mdPc,         \* position of StepCreateInstance.Run / AddToInstanceMetadata
    mdInstance,   \* the build instance: "none", "requested", "created"
    mdCreateKeys, \* metadata keys carried by the instance-creation request
    mdAppendKeys, \* metadata keys appended by the SetMetadata request
    mdCancelled,  \* waitForBoot saw the context cancelled
    mdErr,        \* the variable err of AddToInstanceMetadata, shared with its goroutine
    mdRet,        \* the value AddToInstanceMetadata returned
    mdStError     \* state bag key "error" as the step leaves it

mdVars == <<mdCfg, mdPc, mdInstance, mdCreateKeys, mdAppendKeys, mdCancelled,
            mdErr, mdRet, mdStError>>

VARIABLES
    dkDevs,       \* config.ExtraBlockDevices / StepCreateDisks.DiskConfiguration
    dkPc,         \* position of the build among the steps that touch disks
    dkI,          \* index of the loop over the block devices
    dkCreated,    \* devices whose disk StepCreateDisks.Run created
    dkInstance,   \* the build instance: "none", "running", "deleted"
    dkName,       \* state bag key "instance_name" holds a name
    dkAuto,       \* disks attached to the instance with AutoDelete set
    dkAttach,     \* per device, its attachment in the instance-creation request
    dkExists,     \* disks that exist on the provider's side
    dkDeleteReqs, \* disks a DeleteDisk request was issued for
    dkGet,        \* per device, what GetDisk answered in Cleanup
    dkUiErr       \* devices Cleanup reported a failure for

dkVars == <<dkDevs, dkPc, dkI, dkCreated, dkInstance, dkName, dkAuto, dkAttach, dkExists,
            dkDeleteReqs, dkGet, dkUiErr>>

VARIABLES
    icPc,       \* position of StepCreateInstance.Cleanup
    icName,     \* state bag key "instance_name": "unset", "empty", "name"
    icLog,      \* the requests Cleanup issued and what their waits returned
    icStError   \* state bag key "error" as Cleanup leaves it

icVars == <<icPc, icName, icLog, icStError>>

VARIABLES
    cpBlock,    \* the fields set on the disk_attachment block given to Prepare
    cpViolated, \* the validation rules of Config.Prepare the configuration violates
    cpI,        \* index of the next check of Config.Prepare
    cpErrs      \* errs: the errors held by the accumulated MultiError, in order

cpVars == <<cpBlock, cpViolated, cpI, cpErrs>>

VARIABLES
    olCfg,         \* UseOSLogin, Comm.SSHPrivateKeyFile, Comm.SSHPublicKey, ImpersonateServiceAccount
    olEmail,       \* s.accountEmail
    olPc,          \* position of StepImportOSLoginSSHKey: "idle", "start", "ran", "cleaned"
    olLog,         \* the lookups and driver calls made, with what they returned
    olFingerprint, \* state bag key "ssh_key_public_sha256" is set
    olStError,     \* state bag key "error"
    olAction       \* the action returned by Run

olVars == <<olCfg, olEmail, olPc, olLog, olFingerprint, olStError, olAction>>

VARIABLES
    wpPc,       \* position of createWindowsPassword
    wpErrCh,    \* values buffered in errCh (capacity 1)
    wpSends,    \* number of sends on errCh executed so far
    wpNow,      \* time.Now() since the deadline was computed, in sleeps of 2 s
    wpTimeout,  \* c.WindowsPasswordTimeout, in sleeps of 2 s
    wpPolls,    \* what each getPasswordResponses poll found, in order
    wpPassword  \* c.Password was stored

wpVars == <<wpPc, wpErrCh, wpSends, wpNow, wpTimeout, wpPolls, wpPassword>>

VARIABLES
    auIn,     \* the fields of the Authentication block (changed by Prepare)
    auPc,     \* position of Authentication.Prepare: "idle", "start", "returned"
    auErrs,   \* errs: the errors of the returned MultiError, in order
    auWarn,   \* the warnings returned
    auCred    \* a.credentials: "nil" or "credentials"

auVars == <<auIn, auPc, auErrs, auWarn, auCred>>

VARIABLES
    ssCfg,        \* the startup-script options of Config and the kind of source image
    ssPc,         \* "idle", "prepare", "steps", "instance", "wait", "polling", "continued"
    ssInPipeline, \* StepWaitStartupScript is among the steps Builder.Run built
    ssKeys        \* the metadata keys of the instance creation request

ssVars == <<ssCfg, ssPc, ssInPipeline, ssKeys>>

VARIABLES
    xpPc,       \* position of the export post-processor and its runner
    xpIdx,      \* index of the exporter step to run next
    xpLog,      \* the exporter steps' Run and Cleanup calls with their outcomes
    xpStError,  \* state bag key "error" of the exporter's state
    xpInstance, \* state bag key "instance_name" is set
    xpCancelled, \* the context given to PostProcess is cancelled
    xpRet       \* what PostProcess returned: <<artifact, err>>

xpVars == <<xpPc, xpIdx, xpLog, xpStError, xpInstance, xpCancelled, xpRet>>

lateVars == <<auVars, ssVars, xpVars>>

\* State of the specifications of single functions.
auxVars == <<cpVars, olVars, wpVars, lateVars>>

\* State of the specifications of single steps.
stepVars == <<dpVars, wsVars, mdVars, dkVars, icVars, auxVars>>

runVars == <<ctxCancelled, runnerPc, idx, remaining, lastAction>>

bagVars == <<stError, stImage, instanceName, stFingerprint, imageAlreadyExists>>

retVars == <<retArtifact, retErr>>

plVars == <<cfg, log, runVars, bagVars, retVars>>

vars == <<opVars, plVars, ppVars, stepVars>>

----------------------------------------------------------------------------
(* Call sites of the long-running driver operations and how each one waits. *)

Sites == { "StepCreateImage.DeleteImage", "StepCreateImage.CreateImage",
           "Artifact.Destroy", "PostProcess.CreateImage",
           "StepCreateDisks.CreateDisk", "StepCreateDisks.DeleteDisk",
           "StepCreateInstance.RunInstance", "StepCreateInstance.DeleteInstance",
           "StepCreateInstance.DeleteDisk" }

\* The driver operation a call site invokes.
SiteOp(s) ==
    CASE s = "StepCreateImage.DeleteImage"       -> "DeleteImage"
      [] s = "StepCreateImage.CreateImage"       -> "CreateImage"
      [] s = "Artifact.Destroy"                  -> "DeleteImage"
      [] s = "PostProcess.CreateImage"           -> "CreateImage"
      [] s = "StepCreateDisks.CreateDisk"        -> "CreateDisk"
      [] s = "StepCreateDisks.DeleteDisk"        -> "DeleteDisk"
      [] s = "StepCreateInstance.RunInstance"    -> "RunInstance"
      [] s = "StepCreateInstance.DeleteInstance" -> "DeleteInstance"
      [] s = "StepCreateInstance.DeleteDisk"     -> "DeleteDisk"
      [] s = "AddToInstanceMetadata"             -> "SetMetadata"

\* How the call site waits on the completion signal:
\*   "select"  select { case err = <-errCh: case <-time.After(timeout): }
\*   "recv"    err := <-errCh
\*   "either"  select { case img := <-imageCh: case err := <-errCh: }
SiteWait(s) ==
    CASE s = "StepCreateImage.DeleteImage"       -> "recv"
      [] s = "StepCreateImage.CreateImage"       -> "select"
      [] s = "Artifact.Destroy"                  -> "recv"
      [] s = "PostProcess.CreateImage"           -> "either"
      [] s = "StepCreateDisks.CreateDisk"        -> "select"
      [] s = "StepCreateDisks.DeleteDisk"        -> "select"
      [] s = "StepCreateInstance.RunInstance"    -> "select"
      [] s = "StepCreateInstance.DeleteInstance" -> "select"
      [] s = "StepCreateInstance.DeleteDisk"     -> "select"

\* A failed request is returned directly (RunInstance, DeleteInstance) rather
\* than put on the error channel.
ReturnsRequestError(op) == op \in {"RunInstance", "DeleteInstance"}

\* The driver function closes errCh when it is done with it (disk operations).
ClosesErrCh(op) == op \in {"CreateDisk", "DeleteDisk"}

\* The operation has a result channel and fetches the resource after the wait.
HasResult(op) == op \in {"CreateImage", "CreateDisk"}

----------------------------------------------------------------------------
(* refreshGlobalOp / refreshZoneOp / refreshRegionOp: one status poll.      *)
(* apiErr: the Operations.Get call failed; status: the operation's status;  *)
(* hasErrors: the operation carries error entries.                          *)

Statuses == {"PENDING", "RUNNING", "DONE"}

refreshOp(apiErr, status, hasErrors) ==
    IF apiErr THEN <<"", "refreshErr">>
    ELSE IF status = "DONE" /\ hasErrors THEN <<status, "opErr">>
    ELSE <<status, "nil">>

\* Variant: after forwarding the error the function returns it, so the loop retries.
waitForStateStep_retryAfterSend(r, target) ==
    IF r[2] # "nil"
    THEN IF r[1] = target THEN [send |-> TRUE,  ret |-> "err"]
                          ELSE [send |-> FALSE, ret |-> "err"]
    ELSE IF r[1] = target THEN [send |-> FALSE, ret |-> "nil"]
                          ELSE [send |-> FALSE, ret |-> "err"]

\* Variant: reaching the target without an error is not recognised as the end.
waitForStateStep_missTarget(r, target) ==
    IF r[2] # "nil"
    THEN IF r[1] = target THEN [send |-> TRUE,  ret |-> "nil"]
                          ELSE [send |-> FALSE, ret |-> "err"]
    ELSE [send |-> FALSE, ret |-> "err"]

\* The function waitForState hands to retry.Config.Run: what it does with one
\* refresh result r = <<state, err>>.  send: it executes errCh <- err;
\* ret: the value it returns ("nil" ends the retry loop, "err" retries).
waitForStateStep(r, target) ==
    IF r[2] # "nil"
    THEN IF r[1] = target THEN [send |-> TRUE,  ret |-> "nil"]
                          ELSE [send |-> FALSE, ret |-> "err"]
    ELSE IF r[1] = target THEN [send |-> FALSE, ret |-> "nil"]
                          ELSE [send |-> FALSE, ret |-> "err"]

\* refreshCalls saturates at MaxPolls; the loop goes on.
Bump(n) == IF n < MaxPolls THEN n + 1 ELSE n

ChanCap == 1

CanSend(ch) == Len(ch) < ChanCap

\* A receive is possible on a channel holding a value or closed.
CanRecv(ch, closed) == ch # <<>> \/ closed

\* The value a receive yields: the oldest buffered value, or the zero value
\* of a closed and drained channel.
RecvVal(ch, zero) == IF ch # <<>> THEN Head(ch) ELSE zero

RecvRest(ch) == IF ch # <<>> THEN Tail(ch) ELSE ch

\* The builder pipeline is not part of the behaviours of SpecOp.
PipelineIdle ==
    /\ cfg = [PackerForce |-> FALSE, SkipCreateImage |-> FALSE, WaitToAddSSHKeys |-> FALSE,
              StartupScript |-> FALSE, NumDisks |-> 0, Deprecation |-> "none"]
    /\ ctxCancelled = FALSE
    /\ runnerPc = "idle"
    /\ idx = 1
    /\ remaining = 0
    /\ log = <<>>
    /\ lastAction = "none"
    /\ stError = "none"
    /\ stImage = "none"
    /\ instanceName = "unset"
    /\ stFingerprint = FALSE
    /\ imageAlreadyExists = FALSE
    /\ retArtifact = "none"
    /\ retErr = "none"

\* An unset timestamp option.
Unset == [kind |-> "unset", t |-> 0]

NoStatus == [State |-> "", Deprecated |-> Unset, Obsolete |-> Unset, Deleted |-> Unset]

\* The second half of StepCreateImage.Run is not followed on its own.
DeprecationIdle ==
    /\ dpCfg = [DeprecateAt |-> Unset, ObsoleteAt |-> Unset, DeleteAt |-> Unset]
    /\ dpNow = 0
    /\ dpPc = "idle"
    /\ dpStatus = NoStatus
    /\ dpStError = "none"
    /\ dpUpdated = FALSE

\* The specifications of single steps are not part of the behaviours of
\* Spec, SpecOp and SpecImport.
\* StepWaitStartupScript.Run is not followed on its own.
StartupIdle ==
    /\ wsWrap = "unset"
    /\ wsPc = "idle"
    /\ wsCancelled = FALSE
    /\ wsLog = <<>>
    /\ wsStError = "none"

\* AddToInstanceMetadata is not followed on its own.
MetadataIdle ==
    /\ mdCfg = [WaitToAddSSHKeys |-> FALSE, MetadataSSHKeys |-> FALSE,
                TemporaryKey |-> FALSE, MetadataFilesSSHKeys |-> FALSE]
    /\ mdPc = "idle"
    /\ mdInstance = "none"
    /\ mdCreateKeys = {}
    /\ mdAppendKeys = {}
    /\ mdCancelled = FALSE
    /\ mdErr = "nil"
    /\ mdRet = "none"
    /\ mdStError = "none"

\* The disk steps are not part of the behaviours of the other specifications.
DisksIdle ==
    /\ dkDevs = <<>>
    /\ dkPc = "idle"
    /\ dkI = 1
    /\ dkCreated = {}
    /\ dkInstance = "none"
    /\ dkName = FALSE
    /\ dkAuto = {}
    /\ dkAttach = <<>>
    /\ dkExists = {}
    /\ dkDeleteReqs = {}
    /\ dkGet = <<>>
    /\ dkUiErr = {}

\* StepCreateInstance.Cleanup is followed call by call only in SpecInstanceCleanup.
InstanceCleanupIdle ==
    /\ icPc = "idle"
    /\ icName = "unset"
    /\ icLog = <<>>
    /\ icStError = "none"

\* Config.Prepare is followed check by check only in SpecPrepare.
PrepareIdle ==
    /\ cpBlock = {}
    /\ cpViolated = {}
    /\ cpI = 0
    /\ cpErrs = <<>>

\* StepImportOSLoginSSHKey is followed only in SpecOsLogin.
OsLoginIdle ==
    /\ olCfg = [UseOSLogin |-> FALSE, PrivateKeyFile |-> FALSE, PublicKey |-> FALSE,
                Impersonate |-> FALSE]
    /\ olEmail = ""
    /\ olPc = "idle"
    /\ olLog = <<>>
    /\ olFingerprint = FALSE
    /\ olStError = "none"
    /\ olAction = "none"

\* createWindowsPassword is followed only in SpecPassword.
PasswordIdle ==
    /\ wpPc = "idle"
    /\ wpErrCh = <<>>
    /\ wpSends = 0
    /\ wpNow = 0
    /\ wpTimeout = 0
    /\ wpPolls = <<>>
    /\ wpPassword = FALSE

\* Authentication.Prepare is followed only in SpecAuth.
AuthIdle ==
    /\ auIn = [AccessToken |-> FALSE, AccountFile |-> "", CredentialsFile |-> "",
               CredentialsJSON |-> "", Impersonate |-> FALSE, Vault |-> FALSE]
    /\ auPc = "idle"
    /\ auErrs = <<>>
    /\ auWarn = <<>>
    /\ auCred = "nil"

\* The startup-script configuration is followed only in SpecScript.
ScriptIdle ==
    /\ ssCfg = [MetadataScript |-> "absent", MetadataStatus |-> FALSE, ScriptFile |-> "",
                Wrap |-> "unset", Windows |-> FALSE]
    /\ ssPc = "idle"
    /\ ssInPipeline = FALSE
    /\ ssKeys = {}

\* The export post-processor is followed only in SpecExport.
ExportIdle ==
    /\ xpPc = "idle"
    /\ xpIdx = 0
    /\ xpLog = <<>>
    /\ xpStError = "none"
    /\ xpInstance = FALSE
    /\ xpCancelled = FALSE
    /\ xpRet = <<"none", "none">>

LateIdle == AuthIdle /\ ScriptIdle /\ ExportIdle

AuxIdle == PrepareIdle /\ OsLoginIdle /\ PasswordIdle /\ LateIdle

\* The steps followed in specifications of their own are not running.
StepsIdle_butAux ==
    /\ DeprecationIdle /\ StartupIdle /\ MetadataIdle /\ DisksIdle /\ InstanceCleanupIdle
    /\ LateIdle

StepsIdle == StepsIdle_butAux /\ AuxIdle

\* The import post-processor is not part of the behaviours of Spec and SpecOp.
PostProcessIdle ==
    /\ skipClean = FALSE
    /\ ppPc = "idle"
    /\ uploaded = FALSE
    /\ deleteIssued = FALSE
    /\ ppArtifact = "nil"
    /\ ppErr = "nil"
    /\ ppRet = <<"none", "none">>

----------------------------------------------------------------------------
(* The driver operation. *)

InitOp ==
    /\ site \in Sites
    /\ opPc = "idle"
    /\ errCh = <<>> /\ errChClosed = FALSE
    /\ resCh = <<>> /\ resChClosed = FALSE
    /\ errLog = <<>>
    /\ refreshCalls = 0
    /\ lastRefresh = <<"", "nil">>
    /\ forwarded = FALSE
    /\ pendingErr = "nil"
    /\ callerPc = "call"
    /\ callerErr = "none"
    /\ callerRes = "none"
    /\ PipelineIdle
    /\ PostProcessIdle
    /\ StepsIdle

\* The caller invokes the driver function, which issues the request
\* (....Insert(...).Do() / ....Delete(...).Do()) and, if the provider accepted
\* it, starts the background worker.
DriverCall ==
    /\ callerPc = "call"
    /\ \E accepted \in BOOLEAN :
         IF accepted
         THEN /\ opPc' = "poll"
              /\ callerPc' = "wait"
              /\ UNCHANGED <<errCh, errChClosed, resChClosed, errLog, callerErr>>
         ELSE IF ReturnsRequestError(SiteOp(site))
         THEN /\ opPc' = "none"
              /\ callerPc' = "done"
              /\ callerErr' = "reqErr"
              /\ UNCHANGED <<errCh, errChClosed, resChClosed, errLog>>
         ELSE /\ opPc' = "none"
              /\ callerPc' = "wait"
              /\ errCh' = Append(errCh, "reqErr")
              /\ errLog' = Append(errLog, "reqErr")
              /\ errChClosed' = ClosesErrCh(SiteOp(site))
              /\ resChClosed' = (SiteOp(site) = "CreateDisk")
              /\ UNCHANGED callerErr
    /\ UNCHANGED <<plVars, ppVars, stepVars, site, resCh, refreshCalls, lastRefresh, forwarded, pendingErr, callerRes>>

\* waitForState: one iteration of the retry loop (refresh, then the retried
\* function's decision).  The loop has no bound on tries and no deadline.
WfsPoll ==
    /\ opPc = "poll"
    /\ \E apiErr \in BOOLEAN, status \in Statuses, hasErrors \in BOOLEAN :
         LET r == refreshOp(apiErr, status, hasErrors)
             d == waitForStateStep(r, "DONE")
         IN  /\ d.send => CanSend(errCh)
             /\ lastRefresh' = r
             /\ refreshCalls' = Bump(refreshCalls)
             /\ errCh' = IF d.send THEN Append(errCh, r[2]) ELSE errCh
             /\ errLog' = IF d.send THEN Append(errLog, r[2]) ELSE errLog
             /\ forwarded' = (forwarded \/ d.send)
             /\ opPc' = IF d.ret = "nil" THEN "final" ELSE "poll"
             /\ pendingErr' = "nil"
    /\ UNCHANGED <<plVars, ppVars, stepVars, site, errChClosed, resCh, resChClosed, callerPc, callerErr, callerRes>>

\* Where the worker goes once waitForState has returned.
AfterWait(op) ==
    IF HasResult(op) THEN "get"
    ELSE IF ClosesErrCh(op) THEN "close"
    ELSE IF op = "SetMetadata" THEN "select"
    ELSE "done"

\* waitForState: the final errCh <- err with the retry loop's result; it
\* blocks while the channel's buffer is full.
WfsFinal ==
    /\ opPc = "final"
    /\ CanSend(errCh)
    /\ errCh' = Append(errCh, pendingErr)
    /\ errLog' = Append(errLog, pendingErr)
    /\ opPc' = AfterWait(SiteOp(site))
    /\ UNCHANGED <<plVars, ppVars, stepVars, site, errChClosed, resCh, resChClosed, refreshCalls, lastRefresh,
                   forwarded, pendingErr, callerPc, callerErr, callerRes>>

\* CreateImage / createZonalDisk: fetch the created resource and deliver it.
WorkerGet ==
    /\ opPc = "get"
    /\ \E found \in BOOLEAN :
         IF found
         THEN /\ resCh' = Append(resCh, "res")
              /\ resChClosed' = TRUE
              /\ errChClosed' = ClosesErrCh(SiteOp(site))
              /\ opPc' = "done"
              /\ UNCHANGED pendingErr
         ELSE /\ pendingErr' = "getErr"
              /\ resChClosed' = (SiteOp(site) = "CreateImage")
              /\ opPc' = "sendErr"
              /\ UNCHANGED <<resCh, errChClosed>>
    /\ UNCHANGED <<plVars, ppVars, stepVars, site, errCh, errLog, refreshCalls, lastRefresh, forwarded,
                   callerPc, callerErr, callerRes>>

\* errCh <- err after a failed fetch; createZonalDisk then runs its deferred closes.
WorkerSendErr ==
    /\ opPc = "sendErr"
    /\ CanSend(errCh)
    /\ errCh' = Append(errCh, pendingErr)
    /\ errLog' = Append(errLog, pendingErr)
    /\ errChClosed' = ClosesErrCh(SiteOp(site))
    /\ resChClosed' = TRUE
    /\ opPc' = "done"
    /\ UNCHANGED <<plVars, ppVars, stepVars, site, resCh, refreshCalls, lastRefresh, forwarded, pendingErr,
                   callerPc, callerErr, callerRes>>

\* deleteZonalDisk / deleteRegionalDisk: close(errCh) after the wait.
WorkerClose ==
    /\ opPc = "close"
    /\ errChClosed' = TRUE
    /\ opPc' = "done"
    /\ UNCHANGED <<plVars, ppVars, stepVars, site, errCh, errLog, resCh, resChClosed, refreshCalls, lastRefresh,
                   forwarded, pendingErr, callerPc, callerErr, callerRes>>

\* The caller receives from errCh.
CallerRecvErr ==
    /\ callerPc = "wait"
    /\ CanRecv(errCh, errChClosed)
    /\ callerErr' = RecvVal(errCh, "nil")
    /\ errCh' = RecvRest(errCh)
    /\ callerPc' = IF site = "StepCreateImage.CreateImage" /\ RecvVal(errCh, "nil") = "nil"
                    THEN "recvRes" ELSE "done"
    /\ UNCHANGED <<plVars, ppVars, stepVars, site, opPc, errChClosed, resCh, resChClosed, errLog, refreshCalls,
                   lastRefresh, forwarded, pendingErr, callerRes>>

\* case <-time.After(timeout): only where the wait is a select with a timer.
CallerTimeout ==
    /\ callerPc = "wait"
    /\ SiteWait(site) = "select"
    /\ callerErr' = "timeout"
    /\ callerPc' = "done"
    /\ UNCHANGED <<plVars, ppVars, stepVars, site, opPc, errCh, errChClosed, resCh, resChClosed, errLog,
                   refreshCalls, lastRefresh, forwarded, pendingErr, callerRes>>

\* The caller receives from the result channel: StepCreateImage after a nil
\* error (state.Put("image", <-imageCh)), the import post-processor as the
\* other case of its select.
CallerRecvRes ==
    /\ \/ callerPc = "recvRes"
       \/ callerPc = "wait" /\ SiteWait(site) = "either"
    /\ CanRecv(resCh, resChClosed)
    /\ callerRes' = RecvVal(resCh, "nilres")
    /\ resCh' = RecvRest(resCh)
    /\ callerPc' = "done"
    /\ UNCHANGED <<plVars, ppVars, stepVars, site, opPc, errCh, errChClosed, resChClosed, errLog, refreshCalls,
                   lastRefresh, forwarded, pendingErr, callerErr>>

Worker == WfsPoll \/ WfsFinal \/ WorkerGet \/ WorkerSendErr \/ WorkerClose

Caller == DriverCall \/ CallerRecvErr \/ CallerTimeout \/ CallerRecvRes

NextOp == Worker \/ Caller

SpecOp == InitOp /\ [][NextOp]_vars

\* The Go scheduler runs every runnable goroutine and fires every armed timer.
LiveSpecOp == SpecOp /\ WF_vars(Worker) /\ WF_vars(Caller)

----------------------------------------------------------------------------
(* Properties of the driver operation. *)

\* The error signal is resolved: a value was delivered on it or it was closed.
Resolved == errLog # <<>> \/ errChClosed

\* The provider has reported the target status for the operation.
TargetSeen == lastRefresh[1] = "DONE"

\* C3: no wait on a driver completion signal can block: a caller waiting on
\* the signal can always go on, with a delivered value or through the
\* timeout its wait is raced against.
C3_EveryWaitRaced ==
    callerPc \in {"wait", "recvRes"} => ENABLED Caller

\* C4: at most one value is ever delivered on an operation's error signal.
C4_AtMostOneValue == Len(errLog) <= 1

\* C5 (as stated): once the operation has started, its error signal is
\* eventually resolved, whatever the provider reports.
C5_AlwaysResolved == (opPc = "poll") ~> Resolved

\* C5 (amended): once the provider has reported the target status the error
\* signal is eventually resolved; while waitForState is still polling without
\* having seen the target, the signal is unresolved.
C5_ResolvedOnceTargetSeen ==
    /\ TargetSeen ~> Resolved
    /\ [](opPc = "poll" => ~Resolved)

C5_Witness == TargetSeen /\ ~forwarded /\ Resolved /\ refreshCalls >= 2

\* C6: when refresh returns an error together with the target status, that
\* error is the first value on the error signal, no refresh call follows, and
\* a caller that received from the signal ends with that error.
C6_ForwardedErrorObserved ==
    /\ [](forwarded => errLog[1] = "opErr" /\ opPc # "poll")
    /\ [](forwarded /\ callerPc = "done" /\ callerErr # "timeout" => callerErr = "opErr")
    /\ [][forwarded => refreshCalls' = refreshCalls]_vars

C6_Witness == forwarded /\ callerPc = "done" /\ callerErr = "opErr" /\ refreshCalls >= 2

----------------------------------------------------------------------------
(* The builder: Builder.Run and its pipeline.                               *)

\* No driver operation is tracked at channel level in the behaviours of Spec;
\* a step's wait on an operation is one of the outcomes SpecOp allows it.
OpIdle ==
    /\ site = "none"
    /\ opPc = "idle"
    /\ errCh = <<>> /\ errChClosed = FALSE
    /\ resCh = <<>> /\ resChClosed = FALSE
    /\ errLog = <<>>
    /\ refreshCalls = 0
    /\ lastRefresh = <<"", "nil">>
    /\ forwarded = FALSE
    /\ pendingErr = "nil"
    /\ callerPc = "idle"
    /\ callerErr = "none"
    /\ callerRes = "none"

Configs ==
    [PackerForce : BOOLEAN, SkipCreateImage : BOOLEAN, WaitToAddSSHKeys : BOOLEAN,
     StartupScript : BOOLEAN, NumDisks : 0..MaxDisks,
     Deprecation : {"none", "valid", "invalid"}]

\* Variant: the instance is created before the extra disks, and the image
\* before the instance is torn down.
Steps_instanceFirst(c) ==
    <<"StepCheckExistingImage", "StepSSHKeyGen", "StepDumpSSHKey",
      "StepImportOSLoginSSHKey", "StepCreateInstance", "StepCreateDisks",
      "StepCreateWindowsPassword", "StepInstanceInfo", "StepStartTunnel",
      "StepConnect", "StepProvision", "StepCleanupTempKeys">>
    \o (IF c.StartupScript THEN <<"StepWaitStartupScript">> ELSE <<>>)
    \o <<"StepCreateImage", "StepTeardownInstance">>

\* The steps Builder.Run builds, in order (PackerDebug off: multistep.If
\* yields a step that only continues in place of StepDumpSSHKey).
Steps(c) ==
    <<"StepCheckExistingImage", "StepSSHKeyGen", "StepDumpSSHKey",
      "StepCreateDisks", "StepImportOSLoginSSHKey", "StepCreateInstance",
      "StepCreateWindowsPassword", "StepInstanceInfo", "StepStartTunnel",
      "StepConnect", "StepProvision", "StepCleanupTempKeys">>
    \o (IF c.StartupScript THEN <<"StepWaitStartupScript">> ELSE <<>>)
    \o <<"StepTeardownInstance", "StepCreateImage">>

\* Steps of the host SDK and steps of this repository whose source is not
\* available: each either continues or records an error and halts.
OpaqueSteps ==
    {"StepSSHKeyGen", "StepCreateWindowsPassword", "StepInstanceInfo",
     "StepStartTunnel", "StepConnect", "StepProvision", "StepCleanupTempKeys"}

\* n copies of the event e.
RECURSIVE Repeat(_, _)
Repeat(e, n) == IF n = 0 THEN <<>> ELSE <<e>> \o Repeat(e, n - 1)

Req(r) == <<"req", r>>

\* The answer to a request, or what the wait on it ended with, as the step saw it.
Res(r, o) == <<"res", r, o>>

\* The events of one Step.Run call that issued the requests rs.
RunEvents(name, rs) == <<<<"run", name>>>> \o rs \o <<<<"ret", name>>>>

\* The step that is to run now.
Current(name) ==
    /\ runnerPc = "steps"
    /\ ~ctxCancelled
    /\ idx <= Len(Steps(cfg))
    /\ Steps(cfg)[idx] = name

\* Variant of the runner's loop: a cleanup is deferred only for a step that continued.
Returns_noCleanupOnHalt(action, cancelled) ==
    /\ lastAction' = action
    /\ ctxCancelled' = cancelled
    /\ remaining' = IF action = "halt" THEN remaining ELSE remaining + 1
    /\ IF cancelled \/ action = "halt" \/ idx = Len(Steps(cfg))
       THEN runnerPc' = "cleanup" /\ idx' = idx
       ELSE runnerPc' = "steps" /\ idx' = idx + 1

\* The runner's loop around one Step.Run call: the step's cleanup is deferred,
\* and the loop ends on cancellation, on a halt or after the last step.
Returns(action, cancelled) ==
    /\ lastAction' = action
    /\ ctxCancelled' = cancelled
    /\ remaining' = remaining + 1
    /\ IF cancelled \/ action = "halt" \/ idx = Len(Steps(cfg))
       THEN runnerPc' = "cleanup" /\ idx' = idx
       ELSE runnerPc' = "steps" /\ idx' = idx + 1

Init ==
    /\ cfg \in Configs
    /\ ctxCancelled = FALSE
    /\ runnerPc = "new"
    /\ idx = 1
    /\ remaining = 0
    /\ log = <<>>
    /\ lastAction = "none"
    /\ stError = "none"
    /\ stImage = "none"
    /\ instanceName = "unset"
    /\ stFingerprint = FALSE
    /\ imageAlreadyExists = FALSE
    /\ retArtifact = "none"
    /\ retErr = "none"
    /\ OpIdle
    /\ PostProcessIdle
    /\ StepsIdle

\* Builder.Run: common.NewDriverGCE, then the state bag and the steps.
NewDriver ==
    /\ runnerPc = "new"
    /\ \E ok \in BOOLEAN :
         IF ok
         THEN runnerPc' = "steps" /\ UNCHANGED <<retArtifact, retErr>>
         ELSE runnerPc' = "returned" /\ retArtifact' = "nil" /\ retErr' = "error"
    /\ UNCHANGED <<cfg, log, ctxCancelled, idx, remaining, lastAction, bagVars, opVars, ppVars, stepVars>>

\* The host cancels the build context.
Cancel ==
    /\ runnerPc = "steps"
    /\ ~ctxCancelled
    /\ ctxCancelled' = TRUE
    /\ UNCHANGED <<cfg, log, runnerPc, idx, remaining, lastAction, bagVars, retVars, opVars, ppVars, stepVars>>

\* The runner finds the context cancelled before the next step.
RunnerCancelled ==
    /\ runnerPc = "steps"
    /\ ctxCancelled
    /\ runnerPc' = "cleanup"
    /\ UNCHANGED <<cfg, log, ctxCancelled, idx, remaining, lastAction, bagVars, retVars, opVars, ppVars, stepVars>>

\* Variant of StepCheckExistingImage.Run that removes the existing image of a
\* forced build as soon as it has found it.
CheckExistingImageRun_deletesOnForce ==
    /\ Current("StepCheckExistingImage")
    /\ \E exists \in BOOLEAN :
         /\ imageAlreadyExists' = exists
         /\ IF ~cfg.PackerForce /\ exists
            THEN stError' = "error" /\ Returns("halt", ctxCancelled)
            ELSE stError' = stError /\ Returns("continue", ctxCancelled)
         /\ log' = log \o RunEvents("StepCheckExistingImage",
                       IF cfg.PackerForce /\ exists
                       THEN <<Req("image_delete"), Res("image_delete", "ok")>>
                       ELSE <<>>)
    /\ UNCHANGED <<cfg, stImage, instanceName, stFingerprint, retVars, opVars, ppVars, stepVars>>

\* Variant of StepCheckExistingImage.Run that only notes whether the image exists.
CheckExistingImageRun_noteOnly ==
    /\ Current("StepCheckExistingImage")
    /\ \E exists \in BOOLEAN : imageAlreadyExists' = exists
    /\ stError' = stError
    /\ Returns("continue", ctxCancelled)
    /\ log' = log \o RunEvents("StepCheckExistingImage", <<>>)
    /\ UNCHANGED <<cfg, stImage, instanceName, stFingerprint, retVars, opVars, ppVars, stepVars>>

\* StepCheckExistingImage.Run (regular image; use_machine_image off).
CheckExistingImageRun ==
    /\ Current("StepCheckExistingImage")
    /\ \E exists \in BOOLEAN :
         /\ imageAlreadyExists' = exists
         /\ IF ~cfg.PackerForce /\ exists
            THEN stError' = "error" /\ Returns("halt", ctxCancelled)
            ELSE stError' = stError /\ Returns("continue", ctxCancelled)
    /\ log' = log \o RunEvents("StepCheckExistingImage", <<>>)
    /\ UNCHANGED <<cfg, stImage, instanceName, stFingerprint, retVars, opVars, ppVars, stepVars>>

\* A step of the host SDK, or one whose source is not available: it continues,
\* or records an error and halts.
OpaqueStepRun ==
    /\ \E name \in OpaqueSteps :
         /\ Current(name)
         /\ log' = log \o RunEvents(name, <<>>)
    /\ \E halt \in BOOLEAN :
         IF halt
         THEN stError' = "error" /\ Returns("halt", ctxCancelled)
         ELSE stError' = stError /\ Returns("continue", ctxCancelled)
    /\ UNCHANGED <<cfg, stImage, instanceName, stFingerprint, imageAlreadyExists,
                   retVars, opVars, ppVars, stepVars>>

\* The step multistep.If puts in place of StepDumpSSHKey when debug is off.
NullStepRun ==
    /\ Current("StepDumpSSHKey")
    /\ log' = log \o RunEvents("StepDumpSSHKey", <<>>)
    /\ Returns("continue", ctxCancelled)
    /\ UNCHANGED <<cfg, bagVars, retVars, opVars, ppVars, stepVars>>

\* StepCreateDisks.Run: the disks are created one after the other; created
\* disks were created and waited for with success, then either all are done
\* or the next one fails (with or without its request having been issued).
CreateDisksRun ==
    /\ Current("StepCreateDisks")
    /\ \E created \in 0..cfg.NumDisks, issued \in BOOLEAN :
         IF created = cfg.NumDisks
         THEN /\ issued
              /\ log' = log \o RunEvents("StepCreateDisks", Repeat(Req("disk_insert"), created))
              /\ stError' = stError
              /\ Returns("continue", ctxCancelled)
         ELSE /\ log' = log \o RunEvents("StepCreateDisks",
                            Repeat(Req("disk_insert"), created + (IF issued THEN 1 ELSE 0)))
              /\ stError' = "error"
              /\ Returns("halt", ctxCancelled)
    /\ UNCHANGED <<cfg, stImage, instanceName, stFingerprint, imageAlreadyExists,
                   retVars, opVars, ppVars, stepVars>>

\* StepImportOSLoginSSHKey.Run.
ImportOSLoginSSHKeyRun ==
    /\ Current("StepImportOSLoginSSHKey")
    /\ \E o \in {"skip", "noIdentity", "importErr", "noPosix", "ok"} :
         /\ stFingerprint' = (o # "skip")
         /\ log' = log \o RunEvents("StepImportOSLoginSSHKey",
                      IF o \in {"importErr", "noPosix", "ok"}
                      THEN <<Req("oslogin_import")>> ELSE <<>>)
         /\ IF o \in {"skip", "ok"}
            THEN stError' = stError /\ Returns("continue", ctxCancelled)
            ELSE stError' = "error" /\ Returns("halt", ctxCancelled)
    /\ UNCHANGED <<cfg, stImage, instanceName, imageAlreadyExists, retVars, opVars, ppVars, stepVars>>

\* StepCreateInstance.Run.  o: how far instance creation gets (the request is
\* refused, or it is accepted and the operation fails, is not done in time or
\* succeeds); k: what happens in the wait before the SSH keys are added
\* (wait_to_add_ssh_keys).
CreateInstanceRun ==
    /\ Current("StepCreateInstance")
    /\ \E o \in {"imageErr", "secureBoot", "metadataErr", "requestErr", "opErr",
                 "timeout", "ok"},
          k \in {"none", "cancelled", "getErr", "setErr", "added"} :
         /\ (k # "none") <=> (o = "ok" /\ cfg.WaitToAddSSHKeys)
         /\ log' = log \o RunEvents("StepCreateInstance",
                      (IF o \in {"requestErr", "opErr", "timeout", "ok"}
                       THEN <<Req("instance_insert")>> ELSE <<>>)
                      \o (IF o \in {"opErr", "timeout", "ok"}
                          THEN <<Res("instance_insert", "accepted")>> ELSE <<>>)
                      \o (IF k \in {"setErr", "added"}
                          THEN <<Req("set_metadata")>> ELSE <<>>))
         /\ instanceName' = IF o = "ok" THEN "name" ELSE instanceName
         /\ stError' = IF o = "metadataErr" THEN "string"
                       ELSE IF o # "ok" \/ k \in {"getErr", "setErr"} THEN "error"
                       ELSE stError
         /\ IF o = "ok" /\ k \in {"none", "added"}
            THEN Returns("continue", ctxCancelled)
            ELSE Returns("halt", k = "cancelled")
    /\ UNCHANGED <<cfg, stImage, stFingerprint, imageAlreadyExists, retVars, opVars, ppVars, stepVars>>

\* StepWaitStartupScript.Run: the poll ends with status done, with status
\* error, or with the context cancelled; wrapping may be disabled.
WaitStartupScriptRun ==
    /\ Current("StepWaitStartupScript")
    /\ log' = log \o RunEvents("StepWaitStartupScript", <<>>)
    /\ \E o \in {"disabled", "done", "error", "cancelled"} :
         IF o \in {"disabled", "done"}
         THEN stError' = stError /\ Returns("continue", ctxCancelled)
         ELSE stError' = "error" /\ Returns("halt", o = "cancelled")
    /\ UNCHANGED <<cfg, stImage, instanceName, stFingerprint, imageAlreadyExists,
                   retVars, opVars, ppVars, stepVars>>

\* StepTeardownInstance.Run: deletes the instance, which must be gone before
\* the image is created; a failed deletion is told to the UI, records no
\* error and stops the build.  The boot disk is left to the step's Cleanup.
TeardownInstanceRun ==
    /\ Current("StepTeardownInstance")
    /\ log' = log \o RunEvents("StepTeardownInstance", <<Req("instance_delete")>>)
    /\ \E deleted \in BOOLEAN :
         IF deleted THEN Returns("continue", ctxCancelled)
                    ELSE Returns("halt", ctxCancelled)
    /\ UNCHANGED <<cfg, bagVars, retVars, opVars, ppVars, stepVars>>

\* Variant: the image is created whatever the deletion's wait returned.
deleteAllowsCreate_anyResult(d) == d # "hang"

\* StepCreateImage.Run goes on to the creation when there was nothing to
\* delete or the wait on DeleteImage returned nil.
deleteAllowsCreate(d) == d \in {"skip", "ok"}

\* StepCreateImage.Run.  d: the deletion of the previous image, waited for
\* with a bare receive; c: the creation; s: the deprecation status.
CreateImageRun ==
    /\ Current("StepCreateImage")
    /\ \E d \in {"skip", "ok", "err", "hang"},
          c \in {"none", "requestErr", "opErr", "timeout", "image", "nilImage"},
          s \in {"none", "invalid", "setErr", "set"} :
         /\ (d = "skip") <=> (cfg.SkipCreateImage \/ ~(cfg.PackerForce /\ imageAlreadyExists))
         /\ (c = "none") <=> (cfg.SkipCreateImage \/ ~deleteAllowsCreate(d))
         /\ (s = "none") <=> (c \notin {"image", "nilImage"})
         /\ (s = "invalid") => cfg.Deprecation = "invalid"
         /\ (s \in {"setErr", "set"}) => cfg.Deprecation # "invalid"
         /\ stImage' = IF c = "image" THEN "image"
                       ELSE IF c = "nilImage" THEN "nil"
                       ELSE stImage
         /\ stError' = IF s = "setErr" THEN "string"
                       ELSE IF d = "err" \/ c \in {"requestErr", "opErr", "timeout"}
                               \/ s = "invalid"
                       THEN "error"
                       ELSE stError
         /\ IF d = "hang"
            THEN /\ log' = log \o <<<<"run", "StepCreateImage">>, Req("image_delete")>>
                 /\ runnerPc' = "hung"
                 /\ UNCHANGED <<ctxCancelled, idx, remaining, lastAction>>
            ELSE /\ log' = log \o RunEvents("StepCreateImage",
                              (IF d # "skip" THEN <<Req("image_delete"), Res("image_delete", d)>>
                               ELSE <<>>)
                              \o (IF c # "none" THEN <<Req("image_insert")>> ELSE <<>>)
                              \o (IF s \in {"setErr", "set"}
                                  THEN <<Req("image_deprecate")>> ELSE <<>>))
                 /\ IF cfg.SkipCreateImage \/ s = "set"
                    THEN Returns("continue", ctxCancelled)
                    ELSE Returns("halt", ctxCancelled)
    /\ UNCHANGED <<cfg, instanceName, stFingerprint, imageAlreadyExists, retVars, opVars, ppVars, stepVars>>

\* The names of the steps whose Run was called, in call order.
RECURSIVE Ran(_)
Ran(l) ==
    IF l = <<>> THEN <<>>
    ELSE (IF Head(l)[1] = "run" THEN <<Head(l)[2]>> ELSE <<>>) \o Ran(Tail(l))

\* The names of the steps whose Cleanup was called, in call order.
RECURSIVE Cleaned(_)
Cleaned(l) ==
    IF l = <<>> THEN <<>>
    ELSE (IF Head(l)[1] = "cleanup" THEN <<Head(l)[2]>> ELSE <<>>) \o Cleaned(Tail(l))

\* The deferred cleanup that is to run now.
Unwinding(name) ==
    /\ runnerPc = "cleanup"
    /\ remaining > 0
    /\ Ran(log)[remaining] = name

\* StepCreateDisks.Cleanup: every configured disk that is still found is deleted.
CreateDisksCleanup ==
    /\ Unwinding("StepCreateDisks")
    /\ \E found \in 0..cfg.NumDisks :
         log' = log \o <<<<"cleanup", "StepCreateDisks">>>> \o Repeat(Req("disk_delete"), found)
    /\ remaining' = remaining - 1
    /\ UNCHANGED <<cfg, ctxCancelled, runnerPc, idx, lastAction, bagVars, retVars, opVars, ppVars, stepVars>>

\* StepImportOSLoginSSHKey.Cleanup.
ImportOSLoginSSHKeyCleanup ==
    /\ Unwinding("StepImportOSLoginSSHKey")
    /\ log' = log \o <<<<"cleanup", "StepImportOSLoginSSHKey">>>>
                  \o (IF stFingerprint THEN <<Req("oslogin_delete")>> ELSE <<>>)
    /\ remaining' = remaining - 1
    /\ UNCHANGED <<cfg, ctxCancelled, runnerPc, idx, lastAction, bagVars, retVars, opVars, ppVars, stepVars>>

\* StepCreateInstance.Cleanup: nothing if no instance name is recorded;
\* otherwise the instance, then its boot disk, are deleted.
CreateInstanceCleanup ==
    /\ Unwinding("StepCreateInstance")
    /\ IF instanceName = "name"
       THEN /\ log' = log \o <<<<"cleanup", "StepCreateInstance">>,
                                Req("instance_delete"), Req("disk_delete")>>
            /\ instanceName' = "empty"
       ELSE /\ log' = log \o <<<<"cleanup", "StepCreateInstance">>>>
            /\ instanceName' = instanceName
    /\ remaining' = remaining - 1
    /\ UNCHANGED <<cfg, ctxCancelled, runnerPc, idx, lastAction, stError, stImage,
                   stFingerprint, imageAlreadyExists, retVars, opVars, ppVars, stepVars>>

\* StepTeardownInstance.Cleanup: the boot disk is deleted.
TeardownInstanceCleanup ==
    /\ Unwinding("StepTeardownInstance")
    /\ log' = log \o <<<<"cleanup", "StepTeardownInstance">>, Req("disk_delete")>>
    /\ remaining' = remaining - 1
    /\ UNCHANGED <<cfg, ctxCancelled, runnerPc, idx, lastAction, bagVars, retVars, opVars, ppVars, stepVars>>

\* The Cleanup of every other step changes nothing the model keeps.
OtherCleanup ==
    /\ \E name \in OpaqueSteps \cup {"StepCheckExistingImage", "StepDumpSSHKey",
                                     "StepWaitStartupScript", "StepCreateImage"} :
         /\ Unwinding(name)
         /\ log' = log \o <<<<"cleanup", name>>>>
    /\ remaining' = remaining - 1
    /\ UNCHANGED <<cfg, ctxCancelled, runnerPc, idx, lastAction, bagVars, retVars, opVars, ppVars, stepVars>>

\* The runner returns once the deferred cleanups have run.
RunnerDone ==
    /\ runnerPc = "cleanup"
    /\ remaining = 0
    /\ runnerPc' = "report"
    /\ UNCHANGED <<cfg, log, ctxCancelled, idx, remaining, lastAction, bagVars, retVars, opVars, ppVars, stepVars>>

\* Variant of Builder.Run's report: a missing image is returned as an error.
Report_missingImageIsError ==
    /\ runnerPc = "report"
    /\ IF stError = "string"
       THEN runnerPc' = "panicked" /\ UNCHANGED retVars
       ELSE /\ runnerPc' = "returned"
            /\ IF stError = "error" \/ stImage = "none"
               THEN retArtifact' = "nil" /\ retErr' = "error"
               ELSE /\ retArtifact' = IF stImage = "image" THEN "artifact"
                                      ELSE "artifactOfNilImage"
                    /\ retErr' = "nil"
    /\ UNCHANGED <<cfg, log, ctxCancelled, idx, remaining, lastAction, bagVars, opVars, ppVars, stepVars>>

\* Builder.Run after the runner: the recorded error is asserted to be an
\* error value and returned; without an image nothing is returned.
Report ==
    /\ runnerPc = "report"
    /\ IF stError = "string"
       THEN runnerPc' = "panicked" /\ UNCHANGED retVars
       ELSE /\ runnerPc' = "returned"
            /\ IF stError = "error"
               THEN retArtifact' = "nil" /\ retErr' = "error"
               ELSE IF stImage = "none"
               THEN retArtifact' = "nil" /\ retErr' = "nil"
               ELSE /\ retArtifact' = IF stImage = "image" THEN "artifact"
                                      ELSE "artifactOfNilImage"
                    /\ retErr' = "nil"
    /\ UNCHANGED <<cfg, log, ctxCancelled, idx, remaining, lastAction, bagVars, opVars, ppVars, stepVars>>

StepRun ==
    \/ CheckExistingImageRun
    \/ OpaqueStepRun
    \/ NullStepRun
    \/ CreateDisksRun
    \/ ImportOSLoginSSHKeyRun
    \/ CreateInstanceRun
    \/ WaitStartupScriptRun
    \/ TeardownInstanceRun
    \/ CreateImageRun

StepCleanup ==
    \/ CreateDisksCleanup
    \/ ImportOSLoginSSHKeyCleanup
    \/ CreateInstanceCleanup
    \/ TeardownInstanceCleanup
    \/ OtherCleanup

Next ==
    \/ NewDriver
    \/ Cancel
    \/ RunnerCancelled
    \/ StepRun
    \/ StepCleanup
    \/ RunnerDone
    \/ Report

Spec == Init /\ [][Next]_vars

Reverse(q) == [i \in 1..Len(q) |-> q[Len(q) + 1 - i]]

IsPrefix(p, q) == Len(p) <= Len(q) /\ \A i \in 1..Len(p) : p[i] = q[i]

\* Builder.Run is over: it returned or it panicked.
Finished == runnerPc \in {"returned", "panicked"}

\* C1: at any moment the Cleanup calls made so far are the first calls of the
\* reverse of the Run calls made (so a Cleanup is called only for a step whose
\* Run was called, at most once, and in reverse order of the Run calls), and
\* once the runner is done every step whose Run was called has been cleaned
\* up, whether the run succeeded, halted or was cancelled.
C1_CleanupMirrorsRun ==
    /\ IsPrefix(Cleaned(log), Reverse(Ran(log)))
    /\ (runnerPc = "report" \/ Finished) => Cleaned(log) = Reverse(Ran(log))

C1_Witness ==
    /\ Finished
    /\ lastAction = "halt"
    /\ Len(Ran(log)) >= 6
    /\ Cleaned(log) = Reverse(Ran(log))

\* C2: whenever the instance-creation request is issued, StepCreateDisks.Run
\* has returned and no disk-creation request comes after it; whenever the
\* image-creation request is issued, StepTeardownInstance.Run has returned.
C2_DisksThenInstanceThenTeardownThenImage ==
    \A i \in DOMAIN log :
        /\ log[i] = Req("instance_insert") =>
              /\ \E j \in 1..(i - 1) : log[j] = <<"ret", "StepCreateDisks">>
              /\ \A j \in (i + 1)..Len(log) : log[j] # Req("disk_insert")
        /\ log[i] = Req("image_insert") =>
              \E j \in 1..(i - 1) : log[j] = <<"ret", "StepTeardownInstance">>

C2_Witness ==
    /\ \E i \in DOMAIN log : log[i] = Req("disk_insert")
    /\ \E i \in DOMAIN log : log[i] = Req("instance_insert")
    /\ \E i \in DOMAIN log : log[i] = Req("image_insert")

\* C7: once a step has halted and Builder.Run is over, Builder.Run has
\* returned (it did not panic), with the recorded error and a nil artifact.
C7_HaltReturnsRecordedError ==
    (lastAction = "halt" /\ Finished) =>
        /\ runnerPc = "returned"
        /\ retErr = "error"
        /\ retArtifact = "nil"

\* C8: whenever a step's Run has returned halt, a value is recorded under
\* the state key "error".
C8_HaltHasRecordedError == lastAction = "halt" => stError # "none"

----------------------------------------------------------------------------
(* The import post-processor: PostProcessor.PostProcess.                    *)

InitImport ==
    /\ skipClean \in BOOLEAN
    /\ ppPc = "start"
    /\ uploaded = FALSE
    /\ deleteIssued = FALSE
    /\ ppArtifact = "nil"
    /\ ppErr = "nil"
    /\ ppRet = <<"none", "none">>
    /\ site = "PostProcess.CreateImage"
    /\ opPc = "idle"
    /\ errCh = <<>> /\ errChClosed = FALSE
    /\ resCh = <<>> /\ resChClosed = FALSE
    /\ errLog = <<>>
    /\ refreshCalls = 0
    /\ lastRefresh = <<"", "nil">>
    /\ forwarded = FALSE
    /\ pendingErr = "nil"
    /\ callerPc = "idle"
    /\ callerErr = "none"
    /\ callerRes = "none"
    /\ PipelineIdle
    /\ StepsIdle

\* PostProcess returns <<artifact, error>>.
PpReturn(artifact, err) ==
    /\ ppPc' = "returned"
    /\ ppRet' = <<artifact, err>>

\* Up to the upload: the driver, the artifact type, the object name and the
\* tarball; any failure returns before anything is uploaded.
PpPrepare ==
    /\ ppPc = "start"
    /\ \E ok \in BOOLEAN :
         IF ok THEN ppPc' = "upload" /\ UNCHANGED ppRet
         ELSE PpReturn("nil", "error")
    /\ UNCHANGED <<skipClean, uploaded, deleteIssued, ppArtifact, ppErr, opVars, plVars, stepVars>>

\* driver.UploadToBucket.
PpUpload ==
    /\ ppPc = "upload"
    /\ \E ok \in BOOLEAN :
         IF ok THEN ppPc' = "shielded" /\ uploaded' = TRUE /\ UNCHANGED ppRet
         ELSE PpReturn("nil", "error") /\ UNCHANGED uploaded
    /\ UNCHANGED <<skipClean, deleteIssued, ppArtifact, ppErr, opVars, plVars, stepVars>>

\* CreateShieldedVMStateConfig (it reads the key files); then the call of
\* driver.CreateImage is due.
PpShieldedConfig ==
    /\ ppPc = "shielded"
    /\ \E ok \in BOOLEAN :
         IF ok THEN ppPc' = "select" /\ callerPc' = "call" /\ UNCHANGED ppRet
         ELSE PpReturn("nil", "error") /\ UNCHANGED callerPc
    /\ UNCHANGED <<skipClean, uploaded, deleteIssued, ppArtifact, ppErr, plVars, stepVars,
                   site, opPc, errCh, errChClosed, resCh, resChClosed, errLog,
                   refreshCalls, lastRefresh, forwarded, pendingErr, callerErr, callerRes>>

\* After select { case img := <-imageCh: ... case err := <-errCh: ... }:
\* the image case builds the artifact from img.SelfLink (img is nil when
\* imageCh was closed empty), the error case sets retErr.
PpSelected ==
    /\ ppPc = "select"
    /\ callerPc = "done"
    /\ IF callerRes = "nilres"
       THEN ppPc' = "panicked" /\ UNCHANGED <<ppArtifact, ppErr>>
       ELSE IF callerRes = "res"
       THEN ppPc' = "clean" /\ ppArtifact' = "selfLink" /\ UNCHANGED ppErr
       ELSE ppPc' = "clean" /\ ppErr' = callerErr /\ UNCHANGED ppArtifact
    /\ UNCHANGED <<skipClean, uploaded, deleteIssued, ppRet, opVars, plVars, stepVars>>

\* if !p.config.SkipClean { DeleteFromBucket } and the final return.
PpClean ==
    /\ ppPc = "clean"
    /\ IF skipClean
       THEN PpReturn(ppArtifact, ppErr) /\ UNCHANGED deleteIssued
       ELSE /\ deleteIssued' = TRUE
            /\ \E ok \in BOOLEAN :
                 IF ok THEN PpReturn(ppArtifact, ppErr)
                 ELSE PpReturn("nil", "error")
    /\ UNCHANGED <<skipClean, uploaded, ppArtifact, ppErr, opVars, plVars, stepVars>>

PostProcess == PpPrepare \/ PpUpload \/ PpShieldedConfig \/ PpSelected \/ PpClean

\* The worker of CreateImage and the caller's side of the operation (the
\* select of PostProcess has no timer case).
ImageWorker == WfsPoll \/ WfsFinal \/ WorkerGet \/ WorkerSendErr

ImportCaller == DriverCall \/ CallerRecvErr \/ CallerRecvRes

NextImport == PostProcess \/ ImageWorker \/ ImportCaller

SpecImport == InitImport /\ [][NextImport]_vars

\* The image-insert operation reached DONE without an error.
InsertSucceeded == lastRefresh = <<"DONE", "nil">>

\* C9: when the image-insert operation completed with success and
\* PostProcess returned without an error, the returned artifact records the
\* new image's self-link.
C9_SuccessYieldsSelfLink ==
    (ppPc = "returned" /\ InsertSucceeded /\ ppRet[2] = "nil") => ppRet[1] = "selfLink"

\* C10: unless skip_clean is set, when PostProcess has returned after
\* uploading the object, a deletion of the object was issued.
C10_UploadedObjectDeleted ==
    (ppPc = "returned" /\ uploaded /\ ~skipClean) => deleteIssued

----------------------------------------------------------------------------
(* The image step and the deprecation timestamps.                           *)

\* A request that changes an image of the project was issued.
ImageMutated ==
    \E i \in DOMAIN log : log[i] \in {Req("image_insert"), Req("image_delete")}

\* C11: in a build configured with a deprecation timestamp that is in the
\* past or is not RFC3339, no image-insert request and no deletion of an
\* existing image is ever issued.
C11_InvalidTimestampNoImageMutation ==
    cfg.Deprecation = "invalid" => ~ImageMutated

\* Largest instant of the model's clock.
MaxTime == 2

\* The values of a timestamp option: unset, a string that is not RFC3339,
\* or an RFC3339 string denoting an instant.
Stamps ==
    {Unset, [kind |-> "malformed", t |-> 0]}
    \cup {[kind |-> "time", t |-> n] : n \in 0..MaxTime}

\* Variant: only the format of a timestamp is checked.
StampError_formatOnly(s, now) ==
    IF s.kind = "malformed" THEN "format" ELSE "none"

\* getDeprecationStatus, for one option that is set: time.Parse fails, or
\* the parsed time is before now, or the option is accepted.
StampError(s, now) ==
    IF s.kind = "malformed" THEN "format"
    ELSE IF s.t < now THEN "past"
    ELSE "none"

\* The field of the DeprecationStatus for one option.
StampField(s, now) ==
    IF s.kind # "unset" /\ StampError(s, now) = "none" THEN s ELSE Unset

\* StepCreateImage.getDeprecationStatus: the status and whether errs is non-nil.
getDeprecationStatus(c, now) ==
    LET set == {s \in {c.DeprecateAt, c.ObsoleteAt, c.DeleteAt} : s.kind # "unset"}
    IN  [status |-> [State      |-> IF set # {} THEN "DEPRECATED" ELSE "",
                     Deprecated |-> StampField(c.DeprecateAt, now),
                     Obsolete   |-> StampField(c.ObsoleteAt, now),
                     Deleted    |-> StampField(c.DeleteAt, now)],
         errs   |-> \E s \in set : StampError(s, now) # "none"]

InitDeprecation ==
    /\ dpCfg \in [DeprecateAt : Stamps, ObsoleteAt : Stamps, DeleteAt : Stamps]
    /\ dpNow \in 0..MaxTime
    /\ dpPc = "image"
    /\ dpStatus = NoStatus
    /\ dpStError = "none"
    /\ dpUpdated = FALSE
    /\ OpIdle
    /\ PipelineIdle
    /\ PostProcessIdle
    /\ DisksIdle
    /\ InstanceCleanupIdle /\ AuxIdle
    /\ StartupIdle
    /\ MetadataIdle

\* StepCreateImage.Run after state.Put("image", ...): getDeprecationStatus;
\* an error halts the step.
DpGetStatus ==
    /\ dpPc = "image"
    /\ LET r == getDeprecationStatus(dpCfg, dpNow)
       IN  IF r.errs
           THEN dpStError' = "error" /\ dpPc' = "halted" /\ UNCHANGED dpStatus
           ELSE dpStatus' = r.status /\ dpPc' = "update" /\ UNCHANGED dpStError
    /\ UNCHANGED <<dpCfg, dpNow, dpUpdated, opVars, plVars, ppVars, wsVars, mdVars, dkVars, icVars, auxVars>>

\* StepCreateImage.Run: driver.SetImageDeprecationStatus; a failure is
\* recorded as a string and halts the step.
DpSetStatus ==
    /\ dpPc = "update"
    /\ dpUpdated' = TRUE
    /\ \E ok \in BOOLEAN :
         IF ok THEN dpPc' = "continued" /\ UNCHANGED dpStError
         ELSE dpPc' = "halted" /\ dpStError' = "string"
    /\ UNCHANGED <<dpCfg, dpNow, dpStatus, opVars, plVars, ppVars, wsVars, mdVars, dkVars, icVars, auxVars>>

NextDeprecation == DpGetStatus \/ DpSetStatus

SpecDeprecation == InitDeprecation /\ [][NextDeprecation]_vars

\* The timestamp options that are set.
SetStamps == {s \in {dpCfg.DeprecateAt, dpCfg.ObsoleteAt, dpCfg.DeleteAt} : s.kind # "unset"}

\* C12 (as stated): if a configured timestamp does not parse or is not
\* strictly in the future, the step halts with an error and no status update
\* is attempted.
C12_NotStrictlyFutureHalts ==
    (dpPc # "image" /\ \E s \in SetStamps : s.kind = "malformed" \/ s.t <= dpNow)
        => (dpPc = "halted" /\ dpStError = "error" /\ ~dpUpdated)

\* C12 (amended): if a configured timestamp does not parse or is earlier
\* than the current time, the step halts with an error and no status update
\* is attempted.
C12_PastOrMalformedHalts ==
    (dpPc # "image" /\ \E s \in SetStamps : s.kind = "malformed" \/ s.t < dpNow)
        => (dpPc = "halted" /\ dpStError = "error" /\ ~dpUpdated)

C12_Witness ==
    /\ dpPc = "halted" /\ dpStError = "error" /\ ~dpUpdated
    /\ dpCfg.DeprecateAt.kind = "time" /\ dpCfg.DeprecateAt.t > dpNow
    /\ dpCfg.ObsoleteAt.kind = "time" /\ dpCfg.ObsoleteAt.t < dpNow

----------------------------------------------------------------------------
(* StepWaitStartupScript.Run: the poll of the startup-script-status key.    *)

\* What one read of the metadata key yields: a read failure, or a value.
PollResults == {"readErr", "done", "error", "other"}

\* Variant: a script in error is retried like an unfinished one.
startupRetryStep_retryOnError(r) ==
    CASE r = "readErr" -> "retry"
      [] r = "error"   -> "retry"
      [] r = "done"    -> "nil"
      [] OTHER         -> "retry"

\* The retried function together with ShouldRetry: "nil" ends the loop with
\* success, "stop" ends it with ErrStartupScriptMetadata, "retry" goes on.
startupRetryStep(r) ==
    CASE r = "readErr" -> "retry"
      [] r = "error"   -> "stop"
      [] r = "done"    -> "nil"
      [] OTHER         -> "retry"

\* wsLog keeps the MaxPolls latest read results.
Remember(l, r) == IF Len(l) < MaxPolls THEN Append(l, r) ELSE Append(Tail(l), r)

InitStartup ==
    /\ wsWrap \in {"unset", "true", "false"}
    /\ wsPc = "start"
    /\ wsCancelled = FALSE
    /\ wsLog = <<>>
    /\ wsStError = "none"
    /\ OpIdle
    /\ PipelineIdle
    /\ PostProcessIdle
    /\ DisksIdle
    /\ InstanceCleanupIdle /\ AuxIdle
    /\ DeprecationIdle
    /\ MetadataIdle

\* if config.WrapStartupScriptFile.False() { return multistep.ActionContinue }
WsEnter ==
    /\ wsPc = "start"
    /\ wsPc' = IF wsWrap = "false" THEN "continued" ELSE "poll"
    /\ UNCHANGED <<wsWrap, wsCancelled, wsLog, wsStError, opVars, plVars, ppVars, dpVars, mdVars, dkVars, icVars, auxVars>>

\* One iteration of retry.Config.Run (no Tries, no StartTimeout): the read,
\* the retried function's result, and after a retryable error the check of
\* the context before the delay.
WsPoll ==
    /\ wsPc = "poll"
    /\ \E r \in PollResults :
         LET d == startupRetryStep(r)
         IN  /\ wsLog' = Remember(wsLog, r)
             /\ IF d = "nil"
                THEN wsPc' = "continued" /\ UNCHANGED wsStError
                ELSE IF d = "stop" \/ wsCancelled
                THEN wsPc' = "halted" /\ wsStError' = "error"
                ELSE wsPc' = "poll" /\ UNCHANGED wsStError
    /\ UNCHANGED <<wsWrap, wsCancelled, opVars, plVars, ppVars, dpVars, mdVars, dkVars, icVars, auxVars>>

\* The host cancels the build while the step waits.
WsCancel ==
    /\ wsPc = "poll"
    /\ ~wsCancelled
    /\ wsCancelled' = TRUE
    /\ UNCHANGED <<wsWrap, wsPc, wsLog, wsStError, opVars, plVars, ppVars, dpVars, mdVars, dkVars, icVars, auxVars>>

NextStartup == WsEnter \/ WsPoll \/ WsCancel

SpecStartup == InitStartup /\ [][NextStartup]_vars

\* The step's goroutine keeps running; cancellation is up to the host.
LiveSpecStartup == SpecStartup /\ WF_vars(WsEnter \/ WsPoll)

WsReturned == wsPc \in {"continued", "halted"}

\* The latest read result.
WsLast == IF wsLog = <<>> THEN "none" ELSE wsLog[Len(wsLog)]

\* C13: StepWaitStartupScript.Run always terminates, even if the status
\* never becomes done or error.
C13_StartupWaitTerminates == (wsPc = "poll") ~> WsReturned

\* C14: the step continues only after reading done; reading error halts it
\* at once; after any other value or a read failure it is polling again
\* (unless the build was cancelled, which halts it); once it has returned it
\* reads nothing more.
C14_PollUntilDoneOrError ==
    /\ [](wsPc = "continued" /\ wsWrap # "false" => WsLast = "done")
    /\ [](wsPc = "halted" => wsStError = "error" /\ (WsLast = "error" \/ wsCancelled))
    /\ [](WsLast \in {"done", "error"} => WsReturned)
    /\ [][wsPc = "poll" /\ WsLast' \in {"other", "readErr"} /\ ~wsCancelled
             => wsPc' = "poll" /\ ENABLED WsPoll]_vars
    /\ [][WsReturned => wsLog' = wsLog]_vars

C14_Witness ==
    /\ wsPc = "halted" /\ ~wsCancelled
    /\ Len(wsLog) = MaxPolls
    /\ wsLog[1] = "other" /\ wsLog[2] = "readErr" /\ WsLast = "error"

----------------------------------------------------------------------------
(* StepCreateInstance.Run: the instance metadata, the delayed SSH keys and  *)
(* driverGCE.AddToInstanceMetadata.                                         *)

\* Config.createInstanceMetadata, as the sets of keys of the two maps it
\* returns: entries of metadata named ssh-keys and the temporary key go to
\* the SSH-key map; everything else, metadata_files included, to the other.
createInstanceMetadata(c) ==
    [noSSH |-> {"startup-script"}
               \cup (IF c.MetadataFilesSSHKeys THEN {"ssh-keys"} ELSE {}),
     ssh   |-> IF c.MetadataSSHKeys \/ c.TemporaryKey THEN {"ssh-keys"} ELSE {}]

\* StepCreateInstance.Run: the metadata of the creation request.
metadataForInstance(c, md) ==
    IF c.WaitToAddSSHKeys THEN md.noSSH ELSE md.ssh \cup md.noSSH

InitMetadata ==
    /\ mdCfg \in [WaitToAddSSHKeys : BOOLEAN, MetadataSSHKeys : BOOLEAN,
                  TemporaryKey : BOOLEAN, MetadataFilesSSHKeys : BOOLEAN]
    /\ mdPc = "metadata"
    /\ mdInstance = "none"
    /\ mdCreateKeys = {}
    /\ mdAppendKeys = {}
    /\ mdCancelled = FALSE
    /\ mdErr = "nil"
    /\ mdRet = "none"
    /\ mdStError = "none"
    /\ site = "AddToInstanceMetadata"
    /\ opPc = "idle"
    /\ errCh = <<>> /\ errChClosed = FALSE
    /\ resCh = <<>> /\ resChClosed = FALSE
    /\ errLog = <<>>
    /\ refreshCalls = 0
    /\ lastRefresh = <<"", "nil">>
    /\ forwarded = FALSE
    /\ pendingErr = "nil"
    /\ callerPc = "idle"
    /\ callerErr = "none"
    /\ callerRes = "none"
    /\ PipelineIdle
    /\ PostProcessIdle
    /\ DisksIdle
    /\ InstanceCleanupIdle /\ AuxIdle
    /\ DeprecationIdle
    /\ StartupIdle

\* What the actions of this part leave alone outside mdVars and the operation.
mdOthers == <<plVars, ppVars, dpVars, wsVars, dkVars, icVars, auxVars>>

\* The operation's variables the step itself never touches.
mdOpRest == <<site, errChClosed, resCh, resChClosed, refreshCalls, lastRefresh,
              forwarded, pendingErr, callerPc, callerErr, callerRes>>

\* createInstanceMetadata fails (a file cannot be read: the error is
\* recorded as a string) or the creation request is issued with
\* metadataForInstance and awaited.
MdRunInstance ==
    /\ mdPc = "metadata"
    /\ \E o \in {"metadataErr", "createErr", "created"} :
         /\ mdStError' = CASE o = "metadataErr" -> "string"
                           [] o = "createErr"   -> "error"
                           [] OTHER             -> mdStError
         /\ mdCreateKeys' = IF o = "metadataErr" THEN mdCreateKeys
                            ELSE metadataForInstance(mdCfg, createInstanceMetadata(mdCfg))
         /\ mdInstance' = CASE o = "metadataErr" -> "none"
                            [] o = "createErr"   -> "requested"
                            [] OTHER             -> "created"
         /\ mdPc' = IF o # "created" THEN "halted"
                    ELSE IF mdCfg.WaitToAddSSHKeys THEN "waitForBoot"
                    ELSE "continued"
    /\ UNCHANGED <<mdCfg, mdAppendKeys, mdCancelled, mdErr, mdRet, opPc, errCh, errLog,
                   mdOpRest, mdOthers>>

\* waitForBoot: the context is cancelled during the wait (the step halts
\* without recording an error) or the wait elapses.
MdWaitForBoot ==
    /\ mdPc = "waitForBoot"
    /\ \E cancelled \in BOOLEAN :
         /\ mdCancelled' = cancelled
         /\ mdPc' = IF cancelled THEN "halted" ELSE "call"
    /\ UNCHANGED <<mdCfg, mdInstance, mdCreateKeys, mdAppendKeys, mdErr, mdRet, mdStError,
                   opPc, errCh, errLog, mdOpRest, mdOthers>>

\* AddToInstanceMetadata: Instances.Get and Instances.SetMetadata; a failure
\* of either is returned; otherwise newErrCh is made and the goroutine starts.
MdRequest ==
    /\ mdPc = "call"
    /\ \E o \in {"getErr", "setErr", "accepted"} :
         /\ mdAppendKeys' = IF o = "getErr" THEN mdAppendKeys
                            ELSE createInstanceMetadata(mdCfg).ssh
         /\ IF o = "accepted"
            THEN /\ mdPc' = "check"
                 /\ opPc' = "poll"
                 /\ UNCHANGED <<mdErr, mdRet>>
            ELSE /\ mdPc' = "returned"
                 /\ mdErr' = "reqErr"
                 /\ mdRet' = "reqErr"
                 /\ UNCHANGED opPc
    /\ UNCHANGED <<mdCfg, mdInstance, mdCreateKeys, mdCancelled, mdStError, errCh, errLog,
                   mdOpRest, mdOthers>>

\* if err != nil { newErrCh <- err; return err }; return nil -- right after
\* the go statement; err is read while the goroutine may be writing it.
MdCheck ==
    /\ mdPc = "check"
    /\ IF mdErr # "nil"
       THEN /\ CanSend(errCh)
            /\ errCh' = Append(errCh, mdErr)
            /\ errLog' = Append(errLog, mdErr)
       ELSE UNCHANGED <<errCh, errLog>>
    /\ mdRet' = mdErr
    /\ mdPc' = "returned"
    /\ UNCHANGED <<mdCfg, mdInstance, mdCreateKeys, mdAppendKeys, mdCancelled, mdErr,
                   mdStError, opPc, mdOpRest, mdOthers>>

\* The goroutine after err = waitForState(...): select on newErrCh against
\* the 30 s timer; the outcome is assigned to err.
MdSelect ==
    /\ opPc = "select"
    /\ \/ /\ CanRecv(errCh, errChClosed)
          /\ mdErr' = RecvVal(errCh, "nil")
          /\ errCh' = RecvRest(errCh)
       \/ /\ mdErr' = "timeout"
          /\ UNCHANGED errCh
    /\ opPc' = "done"
    /\ UNCHANGED <<mdCfg, mdPc, mdInstance, mdCreateKeys, mdAppendKeys, mdCancelled, mdRet,
                   mdStError, errLog, mdOpRest, mdOthers>>

\* StepCreateInstance.Run after AddToInstanceMetadata returned.
MdFinish ==
    /\ mdPc = "returned"
    /\ IF mdRet # "nil"
       THEN mdPc' = "halted" /\ mdStError' = "error"
       ELSE mdPc' = "continued" /\ UNCHANGED mdStError
    /\ UNCHANGED <<mdCfg, mdInstance, mdCreateKeys, mdAppendKeys, mdCancelled, mdErr, mdRet,
                   opPc, errCh, errLog, mdOpRest, mdOthers>>

MetadataStep == MdRunInstance \/ MdWaitForBoot \/ MdRequest \/ MdCheck \/ MdFinish

MetadataWorker == WfsPoll \/ WfsFinal \/ MdSelect

NextMetadata == MetadataStep \/ MetadataWorker

SpecMetadata == InitMetadata /\ [][NextMetadata]_vars

\* AddToInstanceMetadata has returned after its update request was accepted.
MdReturnedAfterAccept == mdPc \in {"returned", "continued", "halted"} /\ opPc # "idle"

\* The goroutine's wait is over: it saw the operation DONE or timed out.
MdWaitOver == TargetSeen \/ opPc = "done"

\* C15: when AddToInstanceMetadata returns after its update request was
\* accepted, the operation has been observed DONE or the timeout has
\* elapsed, and an operation that failed or timed out is returned as an error.
C15_ReturnsAfterUpdateDone ==
    MdReturnedAfterAccept =>
        /\ MdWaitOver
        /\ (forwarded \/ mdErr = "timeout") => mdRet # "nil"

\* C16: with wait_to_add_ssh_keys set, the instance-creation request carries
\* no ssh-keys metadata, SSH keys are appended only once the instance is
\* created and the wait has elapsed, and never after a cancelled wait.
C16_KeysWithheldUntilWaitOver ==
    mdCfg.WaitToAddSSHKeys =>
        /\ "ssh-keys" \notin mdCreateKeys
        /\ mdAppendKeys # {} => (mdInstance = "created" /\ ~mdCancelled)
        /\ mdCancelled => mdAppendKeys = {}

----------------------------------------------------------------------------
(* The image StepCreateImage stores.                                        *)

\* The fields of Image that driverGCE.GetImageFromProject fills from the
\* provider's image.
ImageFieldsSet ==
    {"Architecture", "GuestOsFeatures", "Licenses", "Name", "ProjectId", "SelfLink", "SizeGb"}

\* StepCreateImage.Run has returned continue.
CreateImageContinued ==
    /\ lastAction = "continue"
    /\ \E i \in DOMAIN log : log[i] = <<"ret", "StepCreateImage">>

\* C17: when StepCreateImage.Run has returned continue and skip_create_image
\* is not set, the state key "image" holds a non-nil Image whose Name, Labels,
\* Licenses, ProjectId, SelfLink and SizeGb are those of the created image.
C17_ContinueStoresCreatedImage ==
    (CreateImageContinued /\ ~cfg.SkipCreateImage) =>
        /\ stImage = "image"
        /\ {"Name", "Labels", "Licenses", "ProjectId", "SelfLink", "SizeGb"} \subseteq ImageFieldsSet

----------------------------------------------------------------------------
(* Block devices: StepCreateDisks, the attachment of the disks to the build *)
(* instance, the teardown of the instance and the deletion of the disks.    *)
(* SpecDisks follows one build through the steps that touch disks.          *)

MaxDevs == 2

\* config.DiskName: the boot disk, among the disks numbered by block device.
Boot == 0

\* A disk_attachment block as configured: the volume type ("" when unset),
\* keep_device, create_image, source_volume ("ext": the URI of a disk that
\* exists already) and whether replica_zones are listed (looked at here only
\* for the persistent disks the build creates).
RawDevices ==
    {bd \in [VolumeType : {"", "scratch", "pd"}, KeepDevice : BOOLEAN,
             CreateImage : BOOLEAN, SourceVolume : {"", "ext"}, ReplicaZones : BOOLEAN] :
        bd.ReplicaZones => (bd.VolumeType = "pd" /\ bd.SourceVolume = "")}

\* driverGCE.CreateDisk: where the disk comes to be, a URI under the zone
\* ("zonal") or under the region ("regional").
CreateDisk(bd) == IF bd.ReplicaZones THEN "regional" ELSE "zonal"

sourceVolumeFor_alwaysZonal(bd) == "zonal"

\* StepCreateDisks.Run: the URI recorded as the block's source volume.
sourceVolumeFor(bd) == IF bd.ReplicaZones THEN "regional" ELSE "zonal"

hasDiskCreationArgs(bd) == bd.VolumeType # "" \/ bd.KeepDevice

\* BlockDevice.Prepare reports an error for the block.
PrepareErrs(bd) ==
    \/ bd.SourceVolume # "" /\ hasDiskCreationArgs(bd)
    \/ bd.SourceVolume = "" /\ bd.VolumeType = ""
    \/ bd.SourceVolume = "" /\ bd.VolumeType = "scratch" /\ bd.KeepDevice
    \/ bd.CreateImage /\ bd.VolumeType = "scratch"

Prepare_keepAsConfigured(bd) == bd

\* BlockDevice.Prepare: what the block holds afterwards.
Prepare(bd) ==
    IF bd.SourceVolume # "" THEN [bd EXCEPT !.KeepDevice = TRUE] ELSE bd

\* The block has a disk name after Prepare: persistent disks get one, scratch
\* volumes and source volumes may not have one.
Named(bd) == bd.VolumeType = "pd"

CreateImageDevs(devs) == {i \in DOMAIN devs : devs[i].CreateImage}

\* Config.Prepare: create_image on a block while imageSourceDisk is already
\* set to a name is an error.
MultipleCreateImage(devs) ==
    \E j, k \in CreateImageDevs(devs) :
        /\ k < j
        /\ \A m \in CreateImageDevs(devs) : m < j => m <= k
        /\ Named(devs[k])

\* Config.imageSourceDisk: the disk of the last create_image block, the boot
\* disk when there is none or when it has no disk name.
imageSourceDisk(devs) ==
    IF CreateImageDevs(devs) = {} THEN Boot
    ELSE LET l == CHOOSE i \in CreateImageDevs(devs) :
                      \A m \in CreateImageDevs(devs) : m <= i
         IN  IF Named(devs[l]) THEN l ELSE Boot

\* The block lists a build can start with: Config.Prepare accepted them.
PreparedDevices ==
    LET Lists == UNION {[1..n -> RawDevices] : n \in 0..MaxDevs}
        Valid == {d \in Lists : /\ \A i \in DOMAIN d : ~PrepareErrs(d[i])
                                /\ ~MultipleCreateImage(d)}
    IN  {[i \in DOMAIN d |-> Prepare(d[i])] : d \in Valid}

shouldAutoDelete_ignoreCreateImage(bd) ==
    IF bd.VolumeType = "scratch" THEN TRUE
    ELSE IF bd.KeepDevice THEN FALSE
    ELSE TRUE

shouldAutoDelete(bd) ==
    IF bd.VolumeType = "scratch" THEN TRUE
    ELSE IF bd.CreateImage \/ bd.KeepDevice THEN FALSE
    ELSE TRUE

GenerateDiskAttachment(bd) ==
    IF bd.VolumeType = "scratch"
    THEN [AutoDelete |-> TRUE, Type |-> "SCRATCH", Source |-> "",
          InitializeParams |-> TRUE]
    ELSE [AutoDelete |-> shouldAutoDelete(bd), Type |-> "PERSISTENT",
          Source |-> bd.SourceVolume, InitializeParams |-> FALSE]

\* driverGCE.RunInstance: the attachment of the boot disk.
bootDiskAttachment ==
    [AutoDelete |-> FALSE, Type |-> "PERSISTENT", Boot |-> TRUE, InitializeParams |-> TRUE]

\* The disks that go with the instance when it is deleted.
AutoDeleted(devs) ==
    {i \in DOMAIN devs : GenerateDiskAttachment(devs[i]).AutoDelete}
        \cup (IF bootDiskAttachment.AutoDelete THEN {Boot} ELSE {})

cleanupDecision_skipOnGetError(bd, g) ==
    IF bd.KeepDevice THEN "keep"
    ELSE IF bd.VolumeType = "scratch" THEN "scratch"
    ELSE IF g # "found" THEN "skip"
    ELSE "delete"

\* StepCreateDisks.Cleanup: what is done with one block, g being the answer
\* of GetDisk ("found", "notfound": error 404, "error": any other error).
cleanupDecision(bd, g) ==
    IF bd.KeepDevice THEN "keep"
    ELSE IF bd.VolumeType = "scratch" THEN "scratch"
    ELSE IF g = "notfound" THEN "skip"
    ELSE "delete"

\* What GetDisk can answer for a disk.
GetResults(i) ==
    {"error"} \cup (IF i \in dkExists THEN {"found"} ELSE {"notfound"})

dkOthers == <<opVars, plVars, ppVars, dpVars, wsVars, mdVars, icVars, auxVars>>

InitDisks ==
    /\ dkDevs \in PreparedDevices
    /\ dkPc = "disks"
    /\ dkI = 1
    /\ dkCreated = {}
    /\ dkInstance = "none"
    /\ dkName = FALSE
    /\ dkAuto = {}
    /\ dkAttach = <<>>
    /\ dkExists = {i \in DOMAIN dkDevs : dkDevs[i].SourceVolume = "ext"}
    /\ dkDeleteReqs = {}
    /\ dkGet = [i \in DOMAIN dkDevs |-> "none"]
    /\ dkUiErr = {}
    /\ OpIdle
    /\ PipelineIdle
    /\ PostProcessIdle
    /\ DeprecationIdle
    /\ StartupIdle
    /\ MetadataIdle
    /\ InstanceCleanupIdle /\ AuxIdle

\* StepCreateDisks.Run, one round of its loop: scratch volumes and blocks
\* with a source volume are passed over; a disk is created and its URI is
\* recorded as the block's source volume; a failed or timed-out creation
\* halts the build ("exists": the request is refused because a disk of that
\* name is already there).  After the last block the step continues.
DkCreateDisk ==
    /\ dkPc = "disks"
    /\ IF dkI > Len(dkDevs)
       THEN /\ dkPc' = "instance"
            /\ UNCHANGED <<dkDevs, dkI, dkCreated, dkExists>>
       ELSE IF dkDevs[dkI].VolumeType = "scratch" \/ dkDevs[dkI].SourceVolume # ""
       THEN /\ dkI' = dkI + 1
            /\ UNCHANGED <<dkDevs, dkPc, dkCreated, dkExists>>
       ELSE \E o \in {"ok", "err", "exists", "timeout"} :
              IF o = "ok"
              THEN /\ dkDevs' = [dkDevs EXCEPT ![dkI].SourceVolume = sourceVolumeFor(dkDevs[dkI])]
                   /\ dkCreated' = dkCreated \cup {dkI}
                   /\ dkExists' = dkExists \cup {dkI}
                   /\ dkI' = dkI + 1
                   /\ dkPc' = dkPc
              ELSE /\ dkExists' = IF o \in {"timeout", "exists"} THEN dkExists \cup {dkI}
                                 ELSE dkExists
                   /\ dkPc' = "cDisks"
                   /\ dkI' = 1
                   /\ UNCHANGED <<dkDevs, dkCreated>>
    /\ UNCHANGED <<dkInstance, dkName, dkAuto, dkDeleteReqs, dkGet, dkUiErr, dkAttach, dkOthers>>

\* StepCreateInstance.Run with driverGCE.RunInstance: the boot disk and every
\* block device are attached; the instance name is recorded on success.
DkCreateInstance ==
    /\ dkPc = "instance"
    /\ \E ok \in BOOLEAN :
         IF ok
         THEN /\ dkInstance' = "running"
              /\ dkName' = TRUE
              /\ dkAuto' = AutoDeleted(dkDevs)
              /\ dkAttach' = [i \in DOMAIN dkDevs |-> GenerateDiskAttachment(dkDevs[i])]
              /\ dkExists' = dkExists \cup {Boot}
                               \cup {i \in DOMAIN dkDevs : dkDevs[i].VolumeType = "scratch"}
              /\ dkPc' = "provision"
         ELSE /\ dkPc' = "cInstance"
              /\ UNCHANGED <<dkInstance, dkName, dkAuto, dkAttach, dkExists>>
    /\ UNCHANGED <<dkDevs, dkI, dkCreated, dkDeleteReqs, dkGet, dkUiErr, dkOthers>>

\* The steps between instance creation and teardown continue or halt.
DkProvision ==
    /\ dkPc = "provision"
    /\ \E ok \in BOOLEAN : dkPc' = IF ok THEN "teardown" ELSE "cInstance"
    /\ UNCHANGED <<dkDevs, dkI, dkCreated, dkInstance, dkName, dkAuto, dkExists,
                   dkDeleteReqs, dkGet, dkUiErr, dkAttach, dkOthers>>

\* StepTeardownInstance.Run: the instance is deleted, and with it the disks
\* attached with AutoDelete; a failed deletion stops the build.
DkTeardown ==
    /\ dkPc = "teardown"
    /\ \E deleted \in BOOLEAN :
         IF deleted
         THEN /\ dkInstance' = "deleted"
              /\ dkExists' = dkExists \ dkAuto
              /\ dkPc' = "image"
         ELSE /\ dkPc' = "cTeardown"
              /\ UNCHANGED <<dkInstance, dkExists>>
    /\ UNCHANGED <<dkDevs, dkI, dkCreated, dkName, dkAuto, dkDeleteReqs, dkGet,
                   dkUiErr, dkAttach, dkOthers>>

\* StepCreateImage.Run: the image-insert request for imageSourceDisk is issued.
DkCreateImage ==
    /\ dkPc = "image"
    /\ dkPc' = "inserted"
    /\ UNCHANGED <<dkDevs, dkI, dkCreated, dkInstance, dkName, dkAuto, dkExists,
                   dkDeleteReqs, dkGet, dkUiErr, dkAttach, dkOthers>>

\* StepTeardownInstance.Cleanup: the boot disk is deleted; a failure is only
\* told to the UI.
DkTeardownCleanup ==
    /\ dkPc \in {"inserted", "cTeardown"}
    /\ dkDeleteReqs' = dkDeleteReqs \cup {Boot}
    /\ \E ok \in BOOLEAN : dkExists' = IF ok THEN dkExists \ {Boot} ELSE dkExists
    /\ dkPc' = "cInstance"
    /\ UNCHANGED <<dkDevs, dkI, dkCreated, dkInstance, dkName, dkAuto, dkGet,
                   dkUiErr, dkAttach, dkOthers>>

\* StepCreateInstance.Cleanup: nothing without a recorded instance name;
\* otherwise the instance, then the boot disk, are deleted, failures being
\* told to the UI only.
DkInstanceCleanup ==
    /\ dkPc = "cInstance"
    /\ IF ~dkName
       THEN UNCHANGED <<dkInstance, dkName, dkExists, dkDeleteReqs>>
       ELSE \E gone, ok \in BOOLEAN :
              /\ dkInstance' = IF gone THEN "deleted" ELSE dkInstance
              /\ dkName' = FALSE
              /\ dkDeleteReqs' = dkDeleteReqs \cup {Boot}
              /\ dkExists' = (IF gone /\ dkInstance = "running"
                              THEN dkExists \ dkAuto ELSE dkExists)
                                \ (IF ok THEN {Boot} ELSE {})
    /\ dkPc' = "cDisks"
    /\ dkI' = 1
    /\ UNCHANGED <<dkDevs, dkCreated, dkAuto, dkGet, dkUiErr, dkAttach, dkOthers>>

\* StepCreateDisks.Cleanup, one round of its loop over all the blocks.
DkDisksCleanup ==
    /\ dkPc = "cDisks"
    /\ IF dkI > Len(dkDevs)
       THEN /\ dkPc' = "done"
            /\ UNCHANGED <<dkI, dkExists, dkDeleteReqs, dkGet, dkUiErr>>
       ELSE /\ dkPc' = dkPc
            /\ dkI' = dkI + 1
            /\ \E g \in GetResults(dkI), ok \in BOOLEAN :
                 LET d == cleanupDecision(dkDevs[dkI], g) IN
                 /\ dkGet' = IF d \in {"keep", "scratch"} THEN dkGet
                             ELSE [dkGet EXCEPT ![dkI] = g]
                 /\ dkDeleteReqs' = IF d = "delete" THEN dkDeleteReqs \cup {dkI}
                                    ELSE dkDeleteReqs
                 /\ dkExists' = IF d = "delete" /\ ok THEN dkExists \ {dkI} ELSE dkExists
                 /\ dkUiErr' = IF d = "delete" /\ (g = "error" \/ ~ok)
                               THEN dkUiErr \cup {dkI} ELSE dkUiErr
    /\ UNCHANGED <<dkDevs, dkCreated, dkInstance, dkName, dkAuto, dkAttach, dkOthers>>

NextDisks ==
    \/ DkCreateDisk
    \/ DkCreateInstance
    \/ DkProvision
    \/ DkTeardown
    \/ DkCreateImage
    \/ DkTeardownCleanup
    \/ DkInstanceCleanup
    \/ DkDisksCleanup

SpecDisks == InitDisks /\ [][NextDisks]_vars

C19_CreatedDisksDeletedUnlessNotFound ==
    dkPc = "done" =>
        \A i \in dkCreated :
            (~dkDevs[i].KeepDevice /\ dkDevs[i].VolumeType # "scratch") =>
                IF dkGet[i] = "notfound"
                THEN i \notin dkDeleteReqs /\ i \notin dkUiErr
                ELSE i \in dkDeleteReqs

C19_Witness ==
    /\ dkPc = "done"
    /\ \E i, j \in dkCreated :
         /\ ~dkDevs[i].KeepDevice /\ i \in dkDeleteReqs
         /\ ~dkDevs[j].KeepDevice /\ dkGet[j] = "notfound"

----------------------------------------------------------------------------
(* The existence check, the forced replacement of an image and the result   *)
(* of a build without an image.                                             *)

\* C21: once StepCheckExistingImage has found the image to exist in a build
\* without force, the step has halted with an error recorded, no other step
\* was run, no request for a disk, an instance, an SSH key or an image was
\* issued, and Builder.Run returns the error.
C21_ExistingImageHaltsFirst ==
    (imageAlreadyExists /\ ~cfg.PackerForce) =>
        /\ lastAction = "halt"
        /\ stError = "error"
        /\ Ran(log) = <<"StepCheckExistingImage">>
        /\ \A i \in DOMAIN log : log[i][1] # "req"
        /\ Finished => (runnerPc = "returned" /\ retErr = "error" /\ retArtifact = "nil")

C21_Witness ==
    /\ imageAlreadyExists
    /\ ~cfg.PackerForce
    /\ runnerPc = "returned"
    /\ Cleaned(log) = <<"StepCheckExistingImage">>

\* C22: in a forced build that found the image to exist, an image-insert
\* request is issued only after the wait on the deletion of the existing
\* image returned without error; once that wait has returned an error, the
\* step has halted with an error recorded and no image-insert was issued.
C22_DeleteBeforeInsert ==
    /\ \A i \in DOMAIN log :
         (log[i] = Req("image_insert") /\ cfg.PackerForce /\ imageAlreadyExists) =>
             \E j \in 1..(i - 1) : log[j] = Res("image_delete", "ok")
    /\ (\E j \in DOMAIN log : log[j] = Res("image_delete", "err")) =>
         /\ lastAction = "halt"
         /\ stError = "error"
         /\ \A i \in DOMAIN log : log[i] # Req("image_insert")

C22_Witness ==
    /\ cfg.PackerForce
    /\ imageAlreadyExists
    /\ \E i \in DOMAIN log : log[i] = Req("image_insert")
    /\ runnerPc = "returned"

\* Every step of the pipeline was run and the last one returned continue.
PipelineCompleted ==
    /\ Ran(log) = Steps(cfg)
    /\ lastAction = "continue"
    /\ \E i \in DOMAIN log : log[i] = <<"ret", "StepCreateImage">>

\* C23: when the pipeline has completed without a halt and no image is
\* recorded in the state, Builder.Run returns neither an artifact nor an error.
C23_NoImageNoArtifactNoError ==
    (Finished /\ PipelineCompleted /\ stImage = "none") =>
        /\ runnerPc = "returned"
        /\ retArtifact = "nil"
        /\ retErr = "nil"

C23_Witness ==
    /\ Finished
    /\ PipelineCompleted
    /\ stImage = "none"
    /\ cfg.SkipCreateImage
    /\ cfg.NumDisks > 0

----------------------------------------------------------------------------
(* StepCreateInstance.Cleanup, call by call: the deletion of the instance   *)
(* and then of its boot disk, each a driver operation waited for in a       *)
(* select against the state timeout.                                        *)

icOthers == <<plVars, ppVars, dpVars, wsVars, mdVars, dkVars, auxVars>>

InitInstanceCleanup ==
    /\ icPc = "start"
    /\ icName \in {"unset", "empty", "name"}
    /\ icLog = <<>>
    /\ icStError \in {"none", "error"}
    /\ site = "StepCreateInstance.DeleteInstance"
    /\ opPc = "idle"
    /\ errCh = <<>> /\ errChClosed = FALSE
    /\ resCh = <<>> /\ resChClosed = FALSE
    /\ errLog = <<>>
    /\ refreshCalls = 0
    /\ lastRefresh = <<"", "nil">>
    /\ forwarded = FALSE
    /\ pendingErr = "nil"
    /\ callerPc = "idle"
    /\ callerErr = "none"
    /\ callerRes = "none"
    /\ PipelineIdle
    /\ PostProcessIdle
    /\ DeprecationIdle
    /\ StartupIdle
    /\ MetadataIdle
    /\ DisksIdle
    /\ AuxIdle

\* Cleanup returns at once without a recorded, non-empty instance name;
\* otherwise it calls driver.DeleteInstance.
IcEnter ==
    /\ icPc = "start"
    /\ IF icName = "name"
       THEN /\ icPc' = "instance"
            /\ icLog' = <<Req("instance_delete")>>
            /\ callerPc' = "call"
       ELSE /\ icPc' = "done"
            /\ UNCHANGED <<icLog, callerPc>>
    /\ UNCHANGED <<icName, icStError, site, opPc, errCh, errChClosed, resCh, resChClosed,
                   errLog, refreshCalls, lastRefresh, forwarded, pendingErr, callerErr,
                   callerRes, icOthers>>

\* Variant: the boot disk is deleted only after the instance was.
IcDeleteDisk_onlyAfterSuccess ==
    /\ icPc = "instance"
    /\ callerPc = "done"
    /\ icName' = "empty"
    /\ IF callerErr = "nil"
       THEN /\ icLog' = icLog \o <<Res("instance_delete", callerErr), Req("disk_delete")>>
            /\ icPc' = "disk"
            /\ callerPc' = "call"
       ELSE /\ icLog' = Append(icLog, Res("instance_delete", callerErr))
            /\ icPc' = "done"
            /\ callerPc' = "idle"
    /\ site' = "StepCreateInstance.DeleteDisk"
    /\ opPc' = "idle"
    /\ errCh' = <<>> /\ errChClosed' = FALSE
    /\ errLog' = <<>>
    /\ refreshCalls' = 0
    /\ lastRefresh' = <<"", "nil">>
    /\ forwarded' = FALSE
    /\ pendingErr' = "nil"
    /\ callerErr' = "none"
    /\ UNCHANGED <<icStError, resCh, resChClosed, callerRes, icOthers>>

\* The wait on the instance deletion is over (a value, or the timer): a
\* failure is told to the UI, the name is cleared and driver.DeleteDisk is
\* called for the boot disk, on a channel of its own.
IcDeleteDisk ==
    /\ icPc = "instance"
    /\ callerPc = "done"
    /\ icName' = "empty"
    /\ icLog' = icLog \o <<Res("instance_delete", callerErr), Req("disk_delete")>>
    /\ icPc' = "disk"
    /\ site' = "StepCreateInstance.DeleteDisk"
    /\ opPc' = "idle"
    /\ errCh' = <<>> /\ errChClosed' = FALSE
    /\ errLog' = <<>>
    /\ refreshCalls' = 0
    /\ lastRefresh' = <<"", "nil">>
    /\ forwarded' = FALSE
    /\ pendingErr' = "nil"
    /\ callerPc' = "call"
    /\ callerErr' = "none"
    /\ UNCHANGED <<icStError, resCh, resChClosed, callerRes, icOthers>>

\* The wait on the disk deletion is over: a failure is told to the UI.
IcReturn ==
    /\ icPc = "disk"
    /\ callerPc = "done"
    /\ icLog' = Append(icLog, Res("disk_delete", callerErr))
    /\ icPc' = "done"
    /\ UNCHANGED <<icName, icStError, opVars, icOthers>>

InstanceCleanup == IcEnter \/ IcDeleteDisk \/ IcReturn

DeleteWorker == WfsPoll \/ WfsFinal \/ WorkerClose

DeleteCaller == DriverCall \/ CallerRecvErr \/ CallerTimeout

NextInstanceCleanup == InstanceCleanup \/ DeleteWorker \/ DeleteCaller

SpecInstanceCleanup == InitInstanceCleanup /\ [][NextInstanceCleanup]_vars

\* C24: for a recorded instance, Cleanup issues the instance deletion and
\* then the boot-disk deletion, whatever the wait on the instance deletion
\* returned; each wait can end through its timer; the state's error entry is
\* left as it was.
C24_InstanceThenDiskDeleted ==
    /\ [](icPc = "done" /\ icLog # <<>> =>
            /\ Len(icLog) = 4
            /\ icLog[1] = Req("instance_delete")
            /\ icLog[2][1] = "res" /\ icLog[2][2] = "instance_delete"
            /\ icLog[3] = Req("disk_delete")
            /\ icLog[4][1] = "res" /\ icLog[4][2] = "disk_delete")
    /\ [](icPc \in {"instance", "disk"} /\ callerPc = "wait" => ENABLED CallerTimeout)
    /\ [][icPc = "start" /\ icName = "name" => icLog' # <<>>]_vars
    /\ [][icStError' = icStError]_vars

C24_Witness ==
    /\ icPc = "done"
    /\ Len(icLog) = 4
    /\ icLog[2] = Res("instance_delete", "opErr")
    /\ icLog[4] = Res("disk_delete", "timeout")

----------------------------------------------------------------------------
(* The disks StepCreateDisks creates and how the instance attaches them.    *)

\* StepCreateDisks.Run has returned continue.
CreateDisksContinued ==
    dkPc \in {"instance", "provision", "teardown", "image", "inserted", "cTeardown", "cInstance"}

\* The block is a persistent disk the build has to create.
NeedsCreation(bd) == bd.VolumeType # "scratch" /\ bd.SourceVolume # "ext"

C26_SingleImageSource ==
    /\ Cardinality(CreateImageDevs(dkDevs)) <= 1
    /\ \A i \in CreateImageDevs(dkDevs) : imageSourceDisk(dkDevs) = i
    /\ CreateImageDevs(dkDevs) = {} => imageSourceDisk(dkDevs) = Boot

----------------------------------------------------------------------------
(* Config.Prepare, check by check: the validation of the disk_attachment    *)
(* block by BlockDevice.Prepare and the accumulation of the violations of   *)
(* the builder's own rules into the returned error.                         *)

\* The configuration arguments of a disk_attachment block that matter to
\* prepareDiskCreate. A field in the set holds a value that is valid on its
\* own (a pd-extreme volume_type, an iops in range, a compliant disk_name).
BlockFields ==
    {"disk_name", "volume_type", "volume_size", "iops", "keep_device",
     "source_image", "source_volume"}

\* BlockDevice.hasDiskCreationArgs over the set of fields that are set.
hasDiskCreationArgsSet(fields) ==
    \/ "volume_size" \in fields
    \/ "volume_type" \in fields
    \/ "disk_name" \in fields
    \/ "iops" \in fields
    \/ "keep_device" \in fields

\* BlockDevice.prepareDiskCreate: the errors it returns.
prepareDiskCreate(fields) ==
    IF "source_volume" \in fields /\ hasDiskCreationArgsSet(fields)
    THEN <<"source_volume_conflict">>
    ELSE IF "source_volume" \in fields
    THEN <<>>
    ELSE IF "volume_type" \notin fields
    THEN <<"volume_type_invalid", "volume_type_list">>
    ELSE IF "volume_size" \notin fields
    THEN <<"volume_size_missing">>
    ELSE <<>>

\* BlockDevice.Prepare: the errors it returns (interface_type, attachment_mode,
\* device_name and create_image are left at their zero values).
BlockPrepareErrs(fields) == prepareDiskCreate(fields)

\* BlockDevice.Prepare: the block as it leaves Prepare.
BlockPrepared(fields) ==
    IF "source_volume" \in fields THEN fields \cup {"keep_device"} ELSE fields

\* packersdk.MultiErrorAppend(err, errs...): err is the accumulated error
\* (<<>> for nil), errs are appended behind what it holds.
MultiErrorAppend(err, errs) == err \o errs

\* The checks of Config.Prepare in source order. kind "append" passes the
\* accumulated errs as first argument of MultiErrorAppend, kind "first" passes
\* the new error as first argument and nothing else.
ConfigChecks ==
    << [name |-> "disk_attachment",  kind |-> "append"],
       [name |-> "image_name",       kind |-> "append"],
       [name |-> "project_id",       kind |-> "append"],
       [name |-> "accelerator_type", kind |-> "first"],
       [name |-> "labels",           kind |-> "first"],
       [name |-> "network_ip",       kind |-> "append"] >>

ConfigRules == {ConfigChecks[i].name : i \in 2..Len(ConfigChecks)}

\* The errors check c finds in the configuration.
CheckErrs(c, block, violated) ==
    IF c.name = "disk_attachment" THEN BlockPrepareErrs(block)
    ELSE IF c.name \in violated THEN <<c.name>>
    ELSE <<>>

\* errs after a check that found the errors found.
Accumulate(kind, errs, found) ==
    IF found = <<>> THEN errs
    ELSE IF kind = "append" THEN MultiErrorAppend(errs, found)
    ELSE MultiErrorAppend(<<found[Len(found)]>>, <<>>)

\* What the specifications of single functions leave alone.
auxOthers == <<opVars, plVars, ppVars, dpVars, wsVars, mdVars, dkVars, icVars, lateVars>>

InitPrepare ==
    /\ cpBlock \in SUBSET BlockFields
    /\ cpViolated \in SUBSET ConfigRules
    /\ cpI = 1
    /\ cpErrs = <<>>
    /\ OpIdle
    /\ PipelineIdle
    /\ PostProcessIdle
    /\ StepsIdle_butAux
    /\ OsLoginIdle /\ PasswordIdle

\* One check of Config.Prepare.
CpCheck ==
    /\ cpI \in 1..Len(ConfigChecks)
    /\ LET c == ConfigChecks[cpI]
           found == CheckErrs(c, cpBlock, cpViolated)
       IN  /\ cpErrs' = Accumulate(c.kind, cpErrs, found)
           /\ cpBlock' = IF c.name = "disk_attachment" /\ found = <<>>
                         THEN BlockPrepared(cpBlock)
                         ELSE cpBlock
    /\ cpI' = cpI + 1
    /\ UNCHANGED <<cpViolated, olVars, wpVars, auxOthers>>

NextPrepare == CpCheck

SpecPrepare == InitPrepare /\ [][NextPrepare]_vars

\* Config.Prepare returned.
PrepareReturned == cpI = Len(ConfigChecks) + 1

ErrorsOf(errs) == {errs[i] : i \in 1..Len(errs)}

\* C27: when Config.Prepare returns, the returned error reports every
\* validation rule the configuration violates.
C27_AllViolationsReported ==
    PrepareReturned => cpViolated \subseteq ErrorsOf(cpErrs)

\* C28: BlockDevice.Prepare fails with the single combined error whenever
\* source_volume is set together with any of disk_name, volume_type,
\* volume_size, iops or source_image.
C28_SourceVolumeConflictRejected ==
    (/\ cpI = 2
     /\ "source_volume" \in cpBlock
     /\ cpBlock \cap {"disk_name", "volume_type", "volume_size", "iops",
                      "source_image"} # {})
        => cpErrs = <<"source_volume_conflict">>

----------------------------------------------------------------------------
(* StepImportOSLoginSSHKey: how the OS-Login identity is resolved before    *)
(* the key is imported, and the removal of the key in Cleanup.              *)

\* The token-info lookup is made only when no account email is known yet.
consultTokeninfo(email) == email = ""

\* Variant: the GCE metadata server is asked whenever no email is known.
consultGCEUser_ignoreImpersonation(email, c) == email = ""

\* The GCE metadata server is asked only when no email is known and no
\* service account is impersonated.
consultGCEUser(email, c) == email = "" /\ ~c.Impersonate

\* s.accountEmail after the token-info lookup returned t.
afterTokeninfo(email, t) ==
    IF ~consultTokeninfo(email) \/ t = "err" THEN email ELSE t

InitOsLogin ==
    /\ olCfg \in [UseOSLogin : BOOLEAN, PrivateKeyFile : BOOLEAN, PublicKey : BOOLEAN,
                  Impersonate : BOOLEAN]
    /\ olEmail \in {"", "preset@"}
    /\ olPc = "start"
    /\ olLog = <<>>
    /\ olFingerprint = FALSE
    /\ olStError = "none"
    /\ olAction = "none"
    /\ OpIdle
    /\ PipelineIdle
    /\ PostProcessIdle
    /\ StepsIdle_butAux
    /\ PrepareIdle /\ PasswordIdle

\* StepImportOSLoginSSHKey.Run. t is what TokeninfoFunc returns ("err", or
\* the email of the token, possibly empty), g what GCEUserFunc returns, p what
\* driver.ImportOSLoginSSHKey returns.
OlRun ==
    /\ olPc = "start"
    /\ olPc' = "ran"
    /\ IF ~olCfg.UseOSLogin \/ olCfg.PrivateKeyFile \/ ~olCfg.PublicKey
       THEN /\ olAction' = "continue"
            /\ UNCHANGED <<olEmail, olLog, olFingerprint, olStError>>
       ELSE \E t \in {"err", "", "token@"}, g \in {"", "gce@"},
               p \in {"err", "no_posix", "profile"} :
            LET e1 == afterTokeninfo(olEmail, t)
                e2 == IF consultGCEUser(e1, olCfg) THEN g ELSE e1
                l1 == IF consultTokeninfo(olEmail) THEN <<Res("tokeninfo", t)>> ELSE <<>>
                l2 == IF consultGCEUser(e1, olCfg) THEN <<Res("gce_user", g)>> ELSE <<>>
            IN  /\ olFingerprint' = TRUE
                /\ olEmail' = e2
                /\ IF e2 = ""
                   THEN /\ olLog' = l1 \o l2
                        /\ olStError' = "identity"
                        /\ olAction' = "halt"
                   ELSE /\ olLog' = l1 \o l2 \o <<Res("os_login_import", p)>>
                        /\ olStError' = IF p = "profile" THEN "none" ELSE "import"
                        /\ olAction' = IF p = "profile" THEN "continue" ELSE "halt"
    /\ UNCHANGED <<olCfg, cpVars, wpVars, auxOthers>>

\* StepImportOSLoginSSHKey.Cleanup: the key is deleted when its fingerprint
\* was stored.
OlCleanup ==
    /\ olPc = "ran"
    /\ olPc' = "cleaned"
    /\ olLog' = IF olFingerprint THEN Append(olLog, Req("os_login_delete")) ELSE olLog
    /\ UNCHANGED <<olCfg, olEmail, olFingerprint, olStError, olAction, cpVars, wpVars,
                   auxOthers>>

NextOsLogin == OlRun \/ OlCleanup

SpecOsLogin == InitOsLogin /\ [][NextOsLogin]_vars

\* The log holds a call of kind k.
OlCalled(k) == \E i \in 1..Len(olLog) : olLog[i][2] = k

\* The token-info lookup was made and yielded an email.
TokeninfoGaveEmail ==
    \E i \in 1..Len(olLog) :
        olLog[i][2] = "tokeninfo" /\ olLog[i][3] \notin {"err", ""}

\* C29: the metadata-server fallback is consulted only if the token-info
\* lookup yielded no email and no impersonation target is configured; when no
\* identity is resolved the step halts with an error and imports no key.
C29_FallbackLastAndHaltWithoutIdentity ==
    /\ OlCalled("gce_user") => ~TokeninfoGaveEmail /\ ~olCfg.Impersonate
    /\ (olPc # "start" /\ olFingerprint /\ olEmail = "")
          => /\ olAction = "halt"
             /\ olStError = "identity"
             /\ ~OlCalled("os_login_import")

\* An impersonating build whose token gave no email: the fallback was not
\* asked and the step halted without importing.
C29_Witness ==
    /\ olPc = "ran"
    /\ olCfg.Impersonate
    /\ OlCalled("tokeninfo")
    /\ ~OlCalled("gce_user")
    /\ olAction = "halt"
    /\ olStError = "identity"

----------------------------------------------------------------------------
(* driverGCE.createWindowsPassword, the goroutine started by                *)
(* CreateOrResetWindowsPassword: the windows-keys metadata update, the      *)
(* polling of serial port 4 and the single result sent on errCh.            *)

InitPassword ==
    /\ wpPc = "start"
    /\ wpErrCh = <<>>
    /\ wpSends = 0
    /\ wpNow = 0
    /\ wpTimeout \in 0..MaxPwTimeout
    /\ wpPolls = <<>>
    /\ wpPassword = FALSE
    /\ OpIdle
    /\ PipelineIdle
    /\ PostProcessIdle
    /\ StepsIdle_butAux
    /\ PrepareIdle /\ OsLoginIdle

\* errCh <- v on the channel of capacity 1, followed by return.
WpSendAndReturn(v) ==
    /\ Len(wpErrCh) < ChanCap
    /\ wpErrCh' = Append(wpErrCh, v)
    /\ wpSends' = wpSends + 1
    /\ wpPc' = "returned"

\* json.Marshal, Instances.Get and Instances.SetMetadata: the first failure
\* is sent and ends the function.
WpSetMetadata ==
    /\ wpPc = "start"
    /\ \E r \in {"marshal_err", "get_err", "set_err", "ok"} :
         IF r = "ok"
         THEN /\ wpPc' = "wait_op"
              /\ UNCHANGED <<wpErrCh, wpSends>>
         ELSE WpSendAndReturn(r)
    /\ UNCHANGED <<wpNow, wpTimeout, wpPolls, wpPassword, cpVars, olVars, auxOthers>>

\* The select on the metadata operation: the value waitForState sends, or the
\* 30 second timer. A nil result starts the polling with its deadline.
WpWaitOp ==
    /\ wpPc = "wait_op"
    /\ \E r \in {"nil", "op_err", "op_timeout"} :
         IF r = "nil"
         THEN /\ wpPc' = "poll"
              /\ UNCHANGED <<wpErrCh, wpSends>>
         ELSE WpSendAndReturn(r)
    /\ UNCHANGED <<wpNow, wpTimeout, wpPolls, wpPassword, cpVars, olVars, auxOthers>>

\* The outcomes of one poll after which the loop sleeps and polls again: the
\* read failed, or no response carries the modulus.
Unmatched == {"error", "no_match"}

\* What is sent when a response with the modulus was found.
matchResult(r) ==
    CASE r = "match" -> "nil"
      [] r = "bad_base64" -> "decode_err"
      [] r = "bad_cipher" -> "decrypt_err"

\* One iteration of the loop, entered while time.Now() is before the deadline.
WpPoll ==
    /\ wpPc = "poll"
    /\ wpNow < wpTimeout
    /\ \E r \in Unmatched \cup {"match", "bad_base64", "bad_cipher"} :
         /\ wpPolls' = Append(wpPolls, r)
         /\ IF r \in Unmatched
            THEN /\ wpNow' = wpNow + 1
                 /\ UNCHANGED <<wpPc, wpErrCh, wpSends, wpPassword>>
            ELSE /\ WpSendAndReturn(matchResult(r))
                 /\ wpPassword' = (r = "match")
                 /\ UNCHANGED wpNow
    /\ UNCHANGED <<wpTimeout, cpVars, olVars, auxOthers>>

\* Variant: the loop ends at the deadline without a result.
WpTimedOut_noResult ==
    /\ wpPc = "poll"
    /\ ~(wpNow < wpTimeout)
    /\ wpPc' = "returned"
    /\ UNCHANGED <<wpErrCh, wpSends, wpNow, wpTimeout, wpPolls, wpPassword, cpVars, olVars,
                   auxOthers>>

\* The loop ends at the deadline: the timeout error is sent.
WpTimedOut ==
    /\ wpPc = "poll"
    /\ ~(wpNow < wpTimeout)
    /\ WpSendAndReturn("timed_out")
    /\ UNCHANGED <<wpNow, wpTimeout, wpPolls, wpPassword, cpVars, olVars, auxOthers>>

NextPassword == WpSetMetadata \/ WpWaitOp \/ WpPoll \/ WpTimedOut

SpecPassword == InitPassword /\ [][NextPassword]_vars

\* The goroutine keeps running: its requests return and its timers fire.
LiveSpecPassword == SpecPassword /\ WF_vars(NextPassword)

\* No poll found a response with the modulus.
NoMatchFound == \A i \in 1..Len(wpPolls) : wpPolls[i] \in Unmatched

\* The function returned from its polling loop.
PollingOver ==
    /\ wpPc = "returned"
    /\ wpErrCh[1] \in {"nil", "decode_err", "decrypt_err", "timed_out"}

\* C30: createWindowsPassword always returns, having sent exactly one value on
\* errCh; it polls again, one sleep later, only after a poll without a match,
\* and stops at the first match or at the deadline; without a match the
\* result is the timeout error and no password is stored.
C30_OneResultWithinTimeout ==
    /\ <>(wpPc = "returned")
    /\ [](wpSends <= 1)
    /\ [](wpPc = "returned" => wpSends = 1 /\ Len(wpErrCh) = 1)
    /\ [][wpPc = "poll" /\ wpPc' = "poll"
            => /\ wpPolls'[Len(wpPolls')] \in Unmatched
               /\ wpNow' = wpNow + 1]_vars
    /\ [](PollingOver /\ NoMatchFound
            => wpErrCh = <<"timed_out">> /\ wpNow >= wpTimeout /\ ~wpPassword)
    /\ [](PollingOver /\ ~NoMatchFound => wpErrCh # <<"timed_out">>)

\* The deadline passed after polls that found no match.
C30_Witness ==
    /\ wpPc = "returned"
    /\ wpErrCh = <<"timed_out">>
    /\ Len(wpPolls) > 1
    /\ NoMatchFound

----------------------------------------------------------------------------
(* The unwinding of the pipeline after a halt.                              *)

\* The sequence q without its last element.
Front(q) == SubSeq(q, 1, Len(q) - 1)

\* C31: once a build whose last step halted is over, Cleanup was called for
\* the steps that ran before the halting step, latest first, and was not
\* called for the halting step.
C31_HaltingStepNotCleaned ==
    (Finished /\ lastAction = "halt") => Cleaned(log) = Reverse(Front(Ran(log)))

----------------------------------------------------------------------------
(* Authentication.Prepare: the check that at most one credential mechanism  *)
(* is configured, and the loading of the credentials.                       *)

\* Values of credentials_json: a valid and an invalid JSON document.
JSONs == {"json_ok", "json_bad"}

\* Values of credentials_file: a file holding valid JSON, one holding invalid
\* JSON, an empty file and a path that cannot be read.
Paths == {"path_ok", "path_badjson", "path_empty", "path_missing"}

\* os.ReadFile.
ReadFile(path) ==
    CASE path = "path_ok" -> "json_ok"
      [] path = "path_badjson" -> "json_bad"
      [] path = "path_empty" -> ""
      [] OTHER -> "err"

\* The Authentication blocks a template can hold.
AuthInputs ==
    [AccessToken : BOOLEAN, AccountFile : {""} \cup JSONs \cup Paths,
     CredentialsFile : {""} \cup Paths, CredentialsJSON : {""} \cup JSONs,
     Impersonate : BOOLEAN, Vault : BOOLEAN]

\* authTypes: the names of the mechanisms that are set, in the order tested.
authTypes(a) ==
    (IF a.AccessToken THEN <<"access_token">> ELSE <<>>)
    \o (IF a.AccountFile # "" THEN <<"account_file">> ELSE <<>>)
    \o (IF a.CredentialsFile # "" THEN <<"credentials_file">> ELSE <<>>)
    \o (IF a.CredentialsJSON # "" THEN <<"credentials_json">> ELSE <<>>)
    \o (IF a.Impersonate THEN <<"impersonate_service_account">> ELSE <<>>)
    \o (IF a.Vault THEN <<"vault_gcp_oauth_engine">> ELSE <<>>)

\* Variant: two mechanisms are tolerated.
tooManyAuthTypes_allowTwo(types) == Len(types) > 2

\* More than one mechanism is set.
tooManyAuthTypes(types) == Len(types) > 1

\* The block after the deprecated account_file was moved to the field its
\* content stands for.
afterAccountFile(a) ==
    IF a.AccountFile = "" THEN a
    ELSE IF a.AccountFile \in JSONs
    THEN [a EXCEPT !.CredentialsJSON = a.AccountFile]
    ELSE [a EXCEPT !.CredentialsFile = a.AccountFile]

\* The block after credentials_file was read.
afterCredentialsFile(a) ==
    IF a.CredentialsFile = "" \/ ReadFile(a.CredentialsFile) = "err" THEN a
    ELSE [a EXCEPT !.CredentialsJSON = ReadFile(a.CredentialsFile)]

InitAuth ==
    /\ auIn \in AuthInputs
    /\ auPc = "start"
    /\ auErrs = <<>>
    /\ auWarn = <<>>
    /\ auCred = "nil"
    /\ OpIdle
    /\ PipelineIdle
    /\ PostProcessIdle
    /\ DeprecationIdle /\ StartupIdle /\ MetadataIdle /\ DisksIdle /\ InstanceCleanupIdle
    /\ PrepareIdle /\ OsLoginIdle /\ PasswordIdle
    /\ ScriptIdle /\ ExportIdle

lateOthers ==
    <<opVars, plVars, ppVars, dpVars, wsVars, mdVars, dkVars, icVars, cpVars, olVars, wpVars>>

\* Authentication.Prepare.
AuPrepare ==
    /\ auPc = "start"
    /\ auPc' = "returned"
    /\ LET types == authTypes(auIn)
           a1 == afterAccountFile(auIn)
           a2 == afterCredentialsFile(a1)
       IN  /\ auIn' = a2
           /\ auWarn' = IF auIn.AccountFile # "" THEN <<"account_file_deprecated">> ELSE <<>>
           /\ auErrs' =
                MultiErrorAppend(
                  MultiErrorAppend(
                    MultiErrorAppend(<<>>,
                      IF tooManyAuthTypes(types) THEN <<<<"too_many", types>>>> ELSE <<>>),
                    IF a1.CredentialsFile # "" /\ ReadFile(a1.CredentialsFile) = "err"
                    THEN <<<<"read_failed">>>> ELSE <<>>),
                  IF a2.CredentialsJSON = "json_bad" THEN <<<<"bad_json">>>> ELSE <<>>)
           /\ auCred' = IF a2.CredentialsJSON = "json_ok" THEN "credentials" ELSE "nil"
    /\ UNCHANGED <<lateOthers, ssVars, xpVars>>

NextAuth == AuPrepare

SpecAuth == InitAuth /\ [][NextAuth]_vars

\* The content of every credential field that is set is valid.
ValidContent(a) ==
    /\ a.AccountFile \in {"", "json_ok", "path_ok"}
    /\ a.CredentialsFile \in {"", "path_ok"}
    /\ a.CredentialsJSON \in {"", "json_ok"}

----------------------------------------------------------------------------
(* The disks StepCreateDisks.Cleanup deletes.                               *)

\* C33: StepCreateDisks.Cleanup issues a deletion only for a disk that
\* StepCreateDisks.Run created in this build.
C33_OnlyCreatedDisksDeleted ==
    \A i \in dkDeleteReqs \ {Boot} : i \in dkCreated

----------------------------------------------------------------------------
(* The build instance and the image of a forced build.                      *)

\* C34: when Builder.Run has returned, every instance-creation request the
\* provider accepted is followed by a request to delete the instance.
C34_AcceptedInstanceDeleted ==
    runnerPc = "returned" =>
        \A i \in DOMAIN log :
            log[i] = Res("instance_insert", "accepted") =>
                \E j \in (i + 1)..Len(log) : log[j] = Req("instance_delete")

----------------------------------------------------------------------------
(* The startup script of a build: the default of wrap_startup_script set by *)
(* Config.Prepare, the steps Builder.Run builds, the metadata the instance  *)
(* is created with and the entry of StepWaitStartupScript.                  *)

\* MetadataScript: the value of metadata["startup-script"] ("absent" when the
\* key is not there); MetadataStatus: metadata holds "startup-script-status";
\* ScriptFile: startup_script_file, a file that exists, empty or not;
\* Wrap: wrap_startup_script; Windows: the source image is a Windows image.
ScriptConfigs ==
    [MetadataScript : {"absent", "empty", "script"}, MetadataStatus : BOOLEAN,
     ScriptFile : {"", "empty_file", "script_file"},
     Wrap : {"unset", "true", "false"}, Windows : BOOLEAN]

\* Config.Prepare: wrapping defaults to true when a startup script file is given.
prepareWrap(c) ==
    IF c.ScriptFile # "" /\ c.Wrap = "unset" THEN [c EXCEPT !.Wrap = "true"] ELSE c

\* Builder.Run appends StepWaitStartupScript.
waitStepInPipeline(c) == c.MetadataScript # "absent" \/ c.ScriptFile # ""

\* createInstanceMetadata: the script is read from the file when one is
\* given, from the metadata otherwise; TRUE when it is not empty.
hasStartupScript(c) ==
    IF c.ScriptFile # "" THEN c.ScriptFile = "script_file"
    ELSE c.MetadataScript = "script"

\* createInstanceMetadata: the startup-script keys of the instance metadata.
startupMetadataKeys(c) ==
    {"startup-script"}
    \cup (IF c.MetadataStatus THEN {"startup-script-status"} ELSE {})
    \cup (IF hasStartupScript(c) /\ c.Wrap = "true"
          THEN {"startup-wrapped-script", "startup-script-status"} ELSE {})
    \cup (IF c.Windows THEN {"startup-script-status"} ELSE {})

scriptOthers == <<lateOthers, auVars, xpVars>>

InitScript ==
    /\ ssCfg \in ScriptConfigs
    /\ ssPc = "prepare"
    /\ ssInPipeline = FALSE
    /\ ssKeys = {}
    /\ OpIdle
    /\ PipelineIdle
    /\ PostProcessIdle
    /\ DeprecationIdle /\ StartupIdle /\ MetadataIdle /\ DisksIdle /\ InstanceCleanupIdle
    /\ PrepareIdle /\ OsLoginIdle /\ PasswordIdle
    /\ AuthIdle /\ ExportIdle

\* Config.Prepare, the startup-script part.
SsPrepare ==
    /\ ssPc = "prepare"
    /\ ssCfg' = prepareWrap(ssCfg)
    /\ ssPc' = "steps"
    /\ UNCHANGED <<ssInPipeline, ssKeys, scriptOthers>>

\* Builder.Run builds the steps.
SsBuildSteps ==
    /\ ssPc = "steps"
    /\ ssInPipeline' = waitStepInPipeline(ssCfg)
    /\ ssPc' = "instance"
    /\ UNCHANGED <<ssCfg, ssKeys, scriptOthers>>

\* StepCreateInstance.Run creates the instance with its metadata.
SsCreateInstance ==
    /\ ssPc = "instance"
    /\ ssKeys' = startupMetadataKeys(ssCfg)
    /\ ssPc' = "wait"
    /\ UNCHANGED <<ssCfg, ssInPipeline, scriptOthers>>

\* StepWaitStartupScript.Run, if the step is there: it continues at once
\* when wrapping is disabled, and polls the status key otherwise.
SsWaitEnter ==
    /\ ssPc = "wait"
    /\ ssPc' = IF ssInPipeline /\ ssCfg.Wrap # "false" THEN "polling" ELSE "continued"
    /\ UNCHANGED <<ssCfg, ssInPipeline, ssKeys, scriptOthers>>

NextScript == SsPrepare \/ SsBuildSteps \/ SsCreateInstance \/ SsWaitEnter

SpecScript == InitScript /\ [][NextScript]_vars

\* C35: whenever StepWaitStartupScript polls, the instance was created with
\* the startup-script-status metadata key.
C35_PollingHasStatusKey ==
    ssPc = "polling" => "startup-script-status" \in ssKeys

----------------------------------------------------------------------------
(* The deprecation call of a build without deprecation timestamps.          *)

\* C36: when none of deprecate_at, obsolete_at and delete_at is configured,
\* StepCreateImage issues no deprecation-status update and does not halt.
C36_NoStampsNoDeprecationCall ==
    SetStamps = {} => ~dpUpdated /\ dpPc # "halted"

----------------------------------------------------------------------------
(* The export post-processor: PostProcessor.PostProcess runs an exporter    *)
(* instance through a pipeline of its own and returns the artifact.         *)

\* The steps PostProcess builds (PackerDebug off: multistep.If yields a step
\* that only continues in place of StepDumpSSHKey).
ExportSteps ==
    <<"StepSSHKeyGen", "StepDumpSSHKey", "StepCreateInstance",
      "StepWaitStartupScript", "StepTeardownInstance">>

\* What a step's Run can end with; the exporter's configuration sets neither
\* wait_to_add_ssh_keys nor wrap_startup_script, and its metadata holds the
\* startup-script status, so StepWaitStartupScript polls.
ExportOutcomes(name) ==
    CASE name = "StepSSHKeyGen" -> {"ok", "error"}
      [] name = "StepDumpSSHKey" -> {"ok"}
      [] name = "StepCreateInstance" ->
             {"ok", "imageErr", "secureBoot", "metadataErr", "requestErr", "opErr", "timeout"}
      [] name = "StepWaitStartupScript" -> {"done", "error", "cancelled"}
      [] name = "StepTeardownInstance" -> {"ok", "failed"}

\* What a step's Cleanup can end with: the deletions of StepCreateInstance
\* (made only for a recorded instance) and of StepTeardownInstance succeed or
\* fail, which is told to the UI only.
ExportCleanups(name, instance) ==
    IF (name = "StepCreateInstance" /\ instance) \/ name = "StepTeardownInstance"
    THEN {"deleted", "failed"}
    ELSE {"ok"}

\* The step returns ActionContinue.
ExportContinues(o) == o \in {"ok", "done"}

\* The step records an error in the state before it halts.
ExportRecordsError(name, o) == ~ExportContinues(o) /\ name # "StepTeardownInstance"

\* Number of Run calls whose Cleanup is still to be called.
RECURSIVE XpCount(_, _)
XpCount(l, kind) ==
    IF l = <<>> THEN 0
    ELSE (IF Head(l)[1] = kind THEN 1 ELSE 0) + XpCount(Tail(l), kind)

XpRemaining == XpCount(xpLog, "run") - XpCount(xpLog, "cleanup")

exportOthers == <<lateOthers, auVars, ssVars>>

InitExport ==
    /\ xpPc = "start"
    /\ xpIdx = 1
    /\ xpLog = <<>>
    /\ xpStError = "none"
    /\ xpInstance = FALSE
    /\ xpCancelled = FALSE
    /\ xpRet = <<"none", "none">>
    /\ OpIdle
    /\ PipelineIdle
    /\ PostProcessIdle
    /\ DeprecationIdle /\ StartupIdle /\ MetadataIdle /\ DisksIdle /\ InstanceCleanupIdle
    /\ PrepareIdle /\ OsLoginIdle /\ PasswordIdle
    /\ AuthIdle /\ ScriptIdle

\* PostProcess up to the runner: an artifact of an unknown builder and a
\* driver that cannot be created are returned as errors.
XpEnter ==
    /\ xpPc = "start"
    /\ \E r \in {"unknown_artifact", "driver_err", "ok"} :
         IF r = "ok"
         THEN xpPc' = "steps" /\ UNCHANGED xpRet
         ELSE xpPc' = "returned" /\ xpRet' = <<"nil", "error">>
    /\ UNCHANGED <<xpIdx, xpLog, xpStError, xpInstance, xpCancelled, exportOthers>>

\* The host cancels the post-processor's context.
XpCancel ==
    /\ xpPc = "steps"
    /\ ~xpCancelled
    /\ xpCancelled' = TRUE
    /\ UNCHANGED <<xpPc, xpIdx, xpLog, xpStError, xpInstance, xpRet, exportOthers>>

\* The runner finds the context cancelled before the next step.
XpRunnerCancelled ==
    /\ xpPc = "steps"
    /\ xpCancelled
    /\ xpPc' = "cleanup"
    /\ UNCHANGED <<xpIdx, xpLog, xpStError, xpInstance, xpCancelled, xpRet, exportOthers>>

\* The runner calls the next step's Run; a halt ends the loop.
XpStepRun ==
    /\ xpPc = "steps"
    /\ ~xpCancelled
    /\ \E o \in ExportOutcomes(ExportSteps[xpIdx]) :
         LET name == ExportSteps[xpIdx] IN
         /\ xpLog' = Append(xpLog, <<"run", name, o>>)
         /\ xpStError' = IF ExportRecordsError(name, o) THEN "error" ELSE xpStError
         /\ xpInstance' = (xpInstance \/ (name = "StepCreateInstance" /\ o = "ok"))
         /\ IF ExportContinues(o) /\ xpIdx < Len(ExportSteps)
            THEN xpIdx' = xpIdx + 1 /\ xpPc' = "steps"
            ELSE xpIdx' = xpIdx /\ xpPc' = "cleanup"
    /\ UNCHANGED <<xpCancelled, xpRet, exportOthers>>

\* The runner calls the deferred Cleanup of the latest step not yet cleaned up.
XpUnwind ==
    /\ xpPc = "cleanup"
    /\ XpRemaining > 0
    /\ LET name == ExportSteps[XpRemaining] IN
         /\ \E o \in ExportCleanups(name, xpInstance) :
              xpLog' = Append(xpLog, <<"cleanup", name, o>>)
         /\ xpInstance' = (xpInstance /\ name # "StepCreateInstance")
    /\ UNCHANGED <<xpPc, xpIdx, xpStError, xpCancelled, xpRet, exportOthers>>

\* PostProcess after the runner: the artifact is built and returned.
XpReturn ==
    /\ xpPc = "cleanup"
    /\ XpRemaining = 0
    /\ xpPc' = "returned"
    /\ xpRet' = <<"artifact", "nil">>
    /\ UNCHANGED <<xpIdx, xpLog, xpStError, xpInstance, xpCancelled, exportOthers>>

NextExport ==
    XpEnter \/ XpCancel \/ XpRunnerCancelled \/ XpStepRun \/ XpUnwind \/ XpReturn

SpecExport == InitExport /\ [][NextExport]_vars

\* Some exporter step halted.
ExportHalted ==
    \E i \in 1..Len(xpLog) : xpLog[i][1] = "run" /\ ~ExportContinues(xpLog[i][3])

\* C37: PostProcess returns an artifact only if no exporter step halted and
\* the startup-script status was read as done; otherwise it returns an error.
C37_ArtifactOnlyAfterCompletion ==
    xpPc = "returned" =>
        IF ~ExportHalted /\ <<"run", "StepWaitStartupScript", "done">> \in ErrorsOf(xpLog)
        THEN xpRet = <<"artifact", "nil">>
        ELSE xpRet = <<"nil", "error">>

\* The import request was made and the service accepted the key.
KeyImported ==
    \E i \in 1..Len(olLog) :
        olLog[i][2] = "os_login_import" /\ olLog[i][3] # "err"

\* C38: the OS-Login cleanup issues a key deletion only for a key the step
\* imported during this build, under the identity the import used (so never
\* under an empty identity).
C38_DeleteOnlyImportedKey ==
    OlCalled("os_login_delete") => KeyImported /\ olEmail # ""

\* The deletion of the existing image was requested.
ImageDeleteRequested == \E i \in DOMAIN log : log[i] = Req("image_delete")

\* C39: in a forced build the deletion of the existing image is requested only
\* by the last step, after every earlier step of the pipeline was run, returned
\* and let the runner go on with no error recorded; a build that stopped
\* before StepCreateImage was run has requested no deletion.
C39_DeleteOnlyAfterEarlierSteps ==
    /\ \A i \in DOMAIN log :
         log[i] = Req("image_delete") =>
             /\ cfg.PackerForce /\ imageAlreadyExists
             /\ Ran(SubSeq(log, 1, i)) = Steps(cfg)
             /\ \A k \in 1..(Len(Steps(cfg)) - 1) :
                  \E j \in 1..(i - 1) : log[j] = <<"ret", Steps(cfg)[k]>>
    /\ (Ran(log) # Steps(cfg)) => ~ImageDeleteRequested

\* A forced build that found the image halted at an earlier step and is over.
C39_HaltedUntouched ==
    /\ cfg.PackerForce
    /\ imageAlreadyExists
    /\ runnerPc = "returned"
    /\ lastAction = "halt"
    /\ Ran(log) # Steps(cfg)
    /\ Len(Ran(log)) > 1

\* A forced build deleted the existing image in its last step.
C39_Witness ==
    /\ ImageDeleteRequested
    /\ runnerPc = "returned"

\* The worker is at a send on the error channel.
AtSend == opPc \in {"final", "sendErr"}

\* C40: no background worker stays blocked on a channel send: a worker that
\* has come to a send on the error channel eventually gets past it, also when
\* its caller has timed out or has taken only one value.
C40_NoWorkerBlockedOnSend == AtSend ~> ~AtSend

====
